---- MODULE Spec2Model ----
(***************************************************************************)
(* Model of mission-helper: the mission cache of utils/api.py and the      *)
(* attachment lifecycle of routes/mission_routes.py.                       *)
(*                                                                         *)
(* Lists are sequences.  Python's None is the empty tuple and a value x    *)
(* that may be None is carried as <<x>> (None / Some).                     *)
(***************************************************************************)
EXTENDS Integers, Sequences, FiniteSets, TLC

(***************************************************************************)
(* Bounds of the model and program constants                               *)
(***************************************************************************)
\* most get_all_missions calls in one behaviour
MaxCalls == 3
\* most pages the remote serves before its listing ends
MaxPages == 2
\* utils/api.py: per_page = 20
per_page == 20

None == <<>>
Some(x) == <<x>>

\* most files uploaded in one behaviour (each takes a fresh local UUID)
MaxUploads == 2

(***************************************************************************)
(* State: the mission cache of utils/api.py                                *)
(***************************************************************************)
VARIABLES
    tasks_json,          \* WORKING_FOLDER/tasks.json: [kind, data]
    token_file,          \* TOKEN_FILE: [kind, text]
    _cached_missions,    \* None or Some(list)
    _has_loaded_initial, \* the initial load from tasks.json has been done
    _last_fetch_time,    \* "zero", "mtime" (of tasks.json) or "current_time"
    calls,               \* number of get_all_missions calls made so far
    last_list,           \* history: the list last loaded or fetched, None before
    call,                \* the last call: its arguments, entry state and path
    ret                  \* what the last call returned: missions, status, raised

(***************************************************************************)
(* State: one mission's attachment directory,                              *)
(* {UPLOAD_FOLDER}/{listing_codename}/{mission_id}/ and its metadata/      *)
(***************************************************************************)
VARIABLES
    files,               \* names of the regular files in attachments_dir
    sidecars,            \* metadata/{filename}.json: filename -> metadata
    uuid_count,          \* number of uuid.uuid4() values drawn so far
    req                  \* the last attachment request and its response

cacheVars == <<tasks_json, _cached_missions, _has_loaded_initial,
               _last_fetch_time, calls, last_list, call, ret>>
attachVars == <<files, sidecars, uuid_count, req>>

(***************************************************************************)
(* State: templates and drafts (utils/template_utils.py, template_loader)  *)
(***************************************************************************)
VARIABLES
    tpl                  \* the last template operation: its input and what it gave

templVars == <<tpl>>

VARIABLES
    workdir,             \* the listing's working subfolder: [mapping, txt]
    tfiles,              \* legacy JSON drafts and template files that exist
    dreq,                \* the last save_draft or load_task_template call
    saved,               \* history: what was last saved for each mission id
    catq,                \* the last determine_category call: asset types, result
    procs,               \* save_draft requests in progress: position and locals
    events               \* history: the file accesses of these requests, in order

draftVars == <<workdir, tfiles, dreq, saved, catq, procs, events>>
vars == <<cacheVars, token_file, attachVars, templVars, draftVars>>

\* the last request: the handler and the id it was asked for, its response
\* (HTTP status, the JSON's success and api_warning), the batch as it was stored
\* locally, the outcome of the remote call, the files the id lookup matched and
\* the one it settled on, the files a remote DELETE was sent for, and the
\* directory the request found
NotCalled == [called |-> FALSE, success |-> FALSE, items |-> <<>>, more |-> FALSE]
NoRequest ==
    [op |-> "none", mission_id |-> 0, attachment_id |-> <<>>,
     http |-> 0, success |-> FALSE, api_warning |-> FALSE,
     uploaded_files |-> <<>>, api |-> NotCalled,
     candidates |-> {}, chosen |-> <<>>, remote_deletes |-> {}, remote_failed |-> {},
     log |-> <<>>,
     listing |-> <<>>, attachments |-> <<>>,
     before |-> [files |-> {}, sidecars |-> <<>>]]

\* no template operation yet
EmptySections == [k \in {} |-> <<>>]
NoData ==
    [introduction |-> <<>>, testing_methodology |-> <<>>, documentation |-> <<>>,
     scripts |-> <<>>, conclusion_pass |-> <<>>, conclusion_fail |-> <<>>,
     conclusion |-> <<>>, conclusion_type |-> "pass"]
\* an empty working subfolder, no template file, no call yet
NoFolder == [mapping |-> None, txt |-> <<>>]
NoTemplateFiles == [legacy |-> {}, dirs |-> {}]
NoResult ==
    [source |-> "none", category |-> "none", sections |-> EmptySections, name |-> <<>>,
     is_draft |-> FALSE, needs_template_selection |-> FALSE,
     show_default_templates |-> FALSE]
NoDraftCall ==
    [op |-> "none", mission_id |-> <<>>, category |-> None, data |-> NoData,
     mission_title |-> <<>>, before |-> NoFolder, result |-> NoResult]

NothingSaved == [count |-> 0, last |-> <<>>]
NoCategoryCall == [op |-> "none", asset_types |-> <<>>, result |-> "none"]

NoTemplate ==
    [op |-> "none", text |-> <<>>, sections |-> EmptySections, data |-> NoData,
     written |-> <<>>, reparsed |-> EmptySections]

\* two missions the local file or the remote may hold
M1 == 101
M2 == 102

\* the contents tasks.json may have when the process starts
FileMissing == [kind |-> "missing", data |-> <<>>]
FileCorrupt == [kind |-> "corrupt", data |-> <<>>]
JsonFile(list) == [kind |-> "json", data |-> list]
InitialTaskFiles ==
    {FileMissing, FileCorrupt, JsonFile(<<>>), JsonFile(<<M1>>), JsonFile(<<M1, M2>>)}

\* the token file: absent, unreadable, or a text of blanks and token characters
TokenFiles ==
    {[kind |-> "missing", text |-> <<>>], [kind |-> "unreadable", text |-> <<>>]}
    \cup {[kind |-> "text", text |-> t] :
            t \in {<<>>, <<" ">>, <<" ", "t", " ">>}}

\* str.strip(): leading and trailing whitespace removed
RECURSIVE LStrip(_)
LStrip(s) == IF s # <<>> /\ Head(s) = " " THEN LStrip(Tail(s)) ELSE s

RECURSIVE RStrip(_)
RStrip(s) ==
    IF s # <<>> /\ s[Len(s)] = " " THEN RStrip(SubSeq(s, 1, Len(s) - 1)) ELSE s

Strip(s) == RStrip(LStrip(s))

\* read_auth_token: the stripped text, None when the file cannot be read
read_auth_token(tf) ==
    IF tf.kind = "text" THEN Some(Strip(tf.text)) ELSE None

\* mutant of NotToken: `if token is None`, an empty token is sent to the remote
NotToken_NoneOnly(token) == token = None

\* `if not token`: None and the empty string are both falsy
NotToken(token) == token = None \/ token = Some(<<>>)

\* load_cached_tasks: the file's list, [] when it is missing or unreadable
load_cached_tasks(file) ==
    IF file.kind = "json" THEN file.data ELSE <<>>

(***************************************************************************)
(* The remote listing as the GET loop sees it: one response per page       *)
(***************************************************************************)
Http(code, body) == [kind |-> "http", code |-> code, body |-> body]
NetworkError == [kind |-> "exc", code |-> 0, body |-> <<>>]

FullPage == [i \in 1..per_page |-> i]
ShortPages == {<<>>, <<M1>>, <<M2, M1>>}

FullResponses == {Http(200, FullPage)}
LastResponses ==
    {Http(200, b) : b \in ShortPages} \cup {Http(401, <<>>), Http(500, <<>>), NetworkError}

\* full pages followed by the response that ends the loop
RemoteScripts ==
    UNION {{front \o <<last>> : front \in [1..(n - 1) -> FullResponses],
                                last \in LastResponses} : n \in 1..MaxPages}

ApiStatus(success, source, error) ==
    [success |-> success, source |-> source, error |-> error]
NoError == "null"

(***************************************************************************)
(* get_all_missions.  st is the state the call starts in:                  *)
(* [disk, token, cached, loaded, last_fetch]; a tier returns the state it  *)
(* leaves and what the caller gets back.                                   *)
(***************************************************************************)
Outcome(st, missions, status, tier, gets, exit) ==
    [disk |-> st.disk, cached |-> st.cached, loaded |-> st.loaded,
     last_fetch |-> st.last_fetch,
     missions |-> missions, status |-> status, raised |-> "none",
     tier |-> tier, gets |-> gets, exit |-> exit]

\* mutant of FetchLoop: `tasks = new_tasks` in place of `tasks.extend(new_tasks)`
RECURSIVE FetchLoop_KeepsLastPage(_, _, _)
FetchLoop_KeepsLastPage(script, page, tasks) ==
    LET response == script[page] IN
    IF response.kind = "exc"
    THEN [exit |-> "RequestException", tasks |-> tasks, gets |-> page]
    ELSE IF response.code = 200
    THEN IF Len(response.body) < per_page
         THEN [exit |-> "break", tasks |-> response.body, gets |-> page]
         ELSE FetchLoop_KeepsLastPage(script, page + 1, response.body)
    ELSE IF response.code = 401
    THEN [exit |-> "Exception", tasks |-> tasks, gets |-> page]
    ELSE [exit |-> "break", tasks |-> tasks, gets |-> page]

\* FetchLoop where every status other than 200 raises
RECURSIVE FetchLoop_RaisesOnAnyStatus(_, _, _)
FetchLoop_RaisesOnAnyStatus(script, page, tasks) ==
    LET response == script[page] IN
    IF response.kind = "exc"
    THEN [exit |-> "RequestException", tasks |-> tasks, gets |-> page]
    ELSE IF response.code = 200
    THEN LET new_tasks == response.body
             extended == tasks \o new_tasks
         IN  IF Len(new_tasks) < per_page
             THEN [exit |-> "break", tasks |-> extended, gets |-> page]
             ELSE FetchLoop_RaisesOnAnyStatus(script, page + 1, extended)
    ELSE [exit |-> "Exception", tasks |-> tasks, gets |-> page]

\* the pagination loop of get_all_missions from page `page` on
RECURSIVE FetchLoop(_, _, _)
FetchLoop(script, page, tasks) ==
    LET response == script[page] IN
    IF response.kind = "exc"
    THEN [exit |-> "RequestException", tasks |-> tasks, gets |-> page]
    ELSE IF response.code = 200
    THEN LET new_tasks == response.body
             extended == tasks \o new_tasks
         IN  IF Len(new_tasks) < per_page
             THEN [exit |-> "break", tasks |-> extended, gets |-> page]
             ELSE FetchLoop(script, page + 1, extended)
    ELSE IF response.code = 401
    THEN [exit |-> "Exception", tasks |-> tasks, gets |-> page]
    ELSE [exit |-> "break", tasks |-> tasks, gets |-> page]

\* `return cached_missions, {'success': False, 'source': 'cache_fallback', ...}`
CacheFallback(st, error, gets, exit) ==
    Outcome(st, load_cached_tasks(st.disk),
            ApiStatus(FALSE, "cache_fallback", error), "remote", gets, exit)

\* CommitFetched where tasks.json is left as it was
CommitFetched_MemoryOnly(st, tasks, gets) ==
    [Outcome(st, tasks, ApiStatus(TRUE, "api", NoError), "remote", gets, "break")
        EXCEPT !.cached = Some(tasks),
               !.last_fetch = "current_time"]

\* tasks.json and the in-memory cache overwritten with the fetched list
CommitFetched(st, tasks, gets) ==
    [Outcome(st, tasks, ApiStatus(TRUE, "api", NoError), "remote", gets, "break")
        EXCEPT !.disk = JsonFile(tasks),
               !.cached = Some(tasks),
               !.last_fetch = "current_time"]

\* mutant of AfterLoop: the `if not tasks` check is missing, an empty fetch is committed
AfterLoop_NoEmptyCheck(st, loop) ==
    CASE loop.exit = "RequestException" ->
            CacheFallback(st, "Network error while fetching tasks", loop.gets, loop.exit)
      [] loop.exit = "Exception" ->
            CacheFallback(st, "Error fetching tasks: API call failed please check authentication",
                          loop.gets, loop.exit)
      [] OTHER -> CommitFetched(st, loop.tasks, loop.gets)

\* AfterLoop where the zero-task fallback reports `api_error` as it stands, None
AfterLoop_BareApiError(st, loop) ==
    CASE loop.exit = "RequestException" ->
            CacheFallback(st, "Network error while fetching tasks", loop.gets, loop.exit)
      [] loop.exit = "Exception" ->
            CacheFallback(st, "Error fetching tasks: API call failed please check authentication",
                          loop.gets, loop.exit)
      [] loop.exit = "break" /\ loop.tasks = <<>> ->
            CacheFallback(st, NoError, loop.gets, loop.exit)
      [] OTHER -> CommitFetched(st, loop.tasks, loop.gets)

\* what follows the loop: the zero-task check, the two except clauses, the commit
AfterLoop(st, loop) ==
    CASE loop.exit = "RequestException" ->
            CacheFallback(st, "Network error while fetching tasks", loop.gets, loop.exit)
      [] loop.exit = "Exception" ->
            \* `raise Exception(...)` is caught by the enclosing `except Exception`
            CacheFallback(st, "Error fetching tasks: API call failed please check authentication",
                          loop.gets, loop.exit)
      [] loop.exit = "break" /\ loop.tasks = <<>> ->
            CacheFallback(st, "No tasks fetched from API", loop.gets, loop.exit)
      [] OTHER -> CommitFetched(st, loop.tasks, loop.gets)

RemoteTier(st, script) ==
    IF NotToken(read_auth_token(st.token))
    THEN CacheFallback(st, "No auth token found", 0, "no_token")
    ELSE AfterLoop(st, FetchLoop(script, 1, <<>>))

InitialTier(st) ==
    LET missions == load_cached_tasks(st.disk) IN
    [Outcome(st, missions, ApiStatus(TRUE, "initial_cache", NoError), "initial", 0, "return")
        EXCEPT !.cached = Some(missions), !.last_fetch = "mtime", !.loaded = TRUE]

MemoryTier(st) ==
    Outcome(st, st.cached[1], ApiStatus(TRUE, "memory_cache", NoError), "memory", 0, "return")

\* mutant of GetAllMissions: a forced refresh skips the initial load
GetAllMissions_ForceSkipsInitial(st, force_refresh, script) ==
    IF ~st.loaded /\ ~force_refresh /\ load_cached_tasks(st.disk) # <<>>
    THEN InitialTier(st)
    ELSE IF ~force_refresh /\ st.cached # None
    THEN MemoryTier(st)
    ELSE RemoteTier(st, script)

\* get_all_missions: the three tiers in order, each one terminal for the call
GetAllMissions(st, force_refresh, script) ==
    IF ~st.loaded /\ load_cached_tasks(st.disk) # <<>>
    THEN InitialTier(st)
    ELSE IF ~force_refresh /\ st.cached # None
    THEN MemoryTier(st)
    ELSE RemoteTier(st, script)

(***************************************************************************)
(* Mission cache: actions                                                  *)
(***************************************************************************)
State == [disk |-> tasks_json, token |-> token_file, cached |-> _cached_missions,
          loaded |-> _has_loaded_initial, last_fetch |-> _last_fetch_time]

NoCall == [op |-> "none", force_refresh |-> FALSE, entry |-> State, last |-> None,
           tier |-> "none", gets |-> 0, exit |-> "none", script |-> <<>>]
NoReturn == [missions |-> <<>>, status |-> ApiStatus(FALSE, "none", NoError),
             raised |-> "none"]

\* the state and the records a call leaves, from the outcome r of its body
Returned(op, st, force_refresh, script, r) ==
    /\ tasks_json' = r.disk
    /\ _cached_missions' = r.cached
    /\ _has_loaded_initial' = r.loaded
    /\ _last_fetch_time' = r.last_fetch
    /\ calls' = calls + 1
    /\ last_list' = IF r.tier = "initial" \/ r.status.source = "api"
                    THEN Some(r.missions) ELSE last_list
    /\ call' = [op |-> op, force_refresh |-> force_refresh, entry |-> st,
                last |-> last_list, tier |-> r.tier, gets |-> r.gets, exit |-> r.exit,
                script |-> IF r.gets > 0 THEN script ELSE <<>>]
    /\ ret' = [missions |-> r.missions, status |-> r.status, raised |-> r.raised]
    /\ UNCHANGED <<token_file, attachVars, templVars, draftVars>>

get_all_missions ==
    /\ calls < MaxCalls
    /\ \E force_refresh \in BOOLEAN, script \in RemoteScripts :
          Returned("get_all_missions", State, force_refresh, script,
                   GetAllMissions(State, force_refresh, script))

force_refresh_missions ==
    /\ calls < MaxCalls
    /\ \E script \in RemoteScripts :
          LET cleared == [State EXCEPT !.cached = None, !.last_fetch = "zero"]
          IN  Returned("force_refresh_missions", cleared, TRUE, script,
                       GetAllMissions(cleared, TRUE, script))

\* the user replaces, empties or removes the token file between requests
TokenFileChanges ==
    /\ token_file' \in TokenFiles \ {token_file}
    /\ UNCHANGED <<cacheVars, attachVars, templVars, draftVars>>

\* no attachment request made, the mission's directory empty
AttachIdle ==
    /\ files = {}
    /\ sidecars = <<>>
    /\ uuid_count = 0
    /\ req = NoRequest

TemplIdle ==
    /\ tpl = NoTemplate
    /\ workdir = NoFolder
    /\ tfiles = NoTemplateFiles
    /\ dreq = NoDraftCall
    /\ saved = NothingSaved
    /\ catq = NoCategoryCall
    /\ procs = <<>> /\ events = <<>>

CacheInit ==
    /\ AttachIdle
    /\ TemplIdle
    /\ tasks_json \in InitialTaskFiles
    /\ token_file \in TokenFiles
    /\ _cached_missions = None
    /\ _has_loaded_initial = FALSE
    /\ _last_fetch_time = "zero"
    /\ calls = 0
    /\ last_list = None
    /\ call = NoCall
    /\ ret = NoReturn

CacheNext ==
    \/ get_all_missions
    \/ force_refresh_missions
    \/ TokenFileChanges

CacheSpec == CacheInit /\ [][CacheNext]_vars

(***************************************************************************)
(* Mission cache: what the claims speak of, read off the last call         *)
(***************************************************************************)
\* tokenless by the file's content: absent, unreadable, or nothing but blanks
TokenAbsent(tf) ==
    tf.kind # "text" \/ \A i \in 1..Len(tf.text) : tf.text[i] = " "

\* the list tasks.json holds, [] when the file is missing, empty or unreadable
FileContent(file) == IF file.kind = "json" THEN file.data ELSE <<>>

\* the bodies of pages 1..n of a script, in page order
RECURSIVE Concatenated(_, _)
Concatenated(script, n) ==
    IF n = 0 THEN <<>> ELSE Concatenated(script, n - 1) \o script[n].body

\* the remote was asked, and every page it served was a 200
AllPagesOk ==
    /\ call.gets > 0
    /\ \A i \in 1..Len(call.script) :
          call.script[i].kind = "http" /\ call.script[i].code = 200

\* the first page shorter than the page size
FirstShortPage ==
    CHOOSE k \in 1..Len(call.script) :
        /\ Len(call.script[k].body) < per_page
        /\ \A j \in 1..(k - 1) : Len(call.script[j].body) >= per_page

Answered401 ==
    \E i \in 1..call.gets : call.script[i].kind = "http" /\ call.script[i].code = 401

NetworkFailed ==
    \E i \in 1..call.gets : call.script[i].kind = "exc"

\* the fetch ended with nothing accumulated: first page non-200 other than 401,
\* or a single 200 page carrying an empty list
ZeroTasksFetched ==
    /\ call.gets = 1
    /\ call.script[1].kind = "http"
    /\ \/ call.script[1].code \notin {200, 401}
       \/ call.script[1].code = 200 /\ call.script[1].body = <<>>

C2_Raises401 ==
    Answered401 => ret.raised = "authentication"

\* C3: a remote fetch that fails with a network exception, or ends with zero
\* tasks accumulated, returns success=false, source=cache_fallback, a non-null
\* error and the current content of tasks.json, which the call leaves as it
\* was; the list is empty only if tasks.json is missing, empty or unreadable.
C3_FallbackToDisk ==
    (NetworkFailed \/ ZeroTasksFetched)
        => /\ ret.status.success = FALSE
           /\ ret.status.source = "cache_fallback"
           /\ ret.status.error # NoError
           /\ ret.raised = "none"
           /\ tasks_json = call.entry.disk
           /\ ret.missions = FileContent(tasks_json)
           /\ (ret.missions = <<>> =>
                  tasks_json.kind # "json" \/ tasks_json.data = <<>>)

\* C3 witness: a network error on the second page and a zero-task first page
\* each hand back a non-empty tasks.json
C3_Witness ==
    /\ NetworkFailed
    /\ call.gets = 2
    /\ ret.missions = <<M1, M2>>
    /\ ret.status.source = "cache_fallback"

\* C4 (as claimed): once the initial load has happened, a get_all_missions call
\* without force_refresh returns the last list loaded or fetched with
\* source=memory_cache and issues no GET.
C4_MemoryAfterInitial ==
    (call.op = "get_all_missions" /\ ~call.force_refresh /\ call.entry.loaded)
        => /\ ret.status.source = "memory_cache"
           /\ Some(ret.missions) = call.last
           /\ call.gets = 0

\* C5 (as claimed): only the first call can be served from the initial on-disk
\* source; a later call with force_refresh and a token issues the remote GET.
C5_InitialOnlyOnce ==
    calls > 1
        => /\ ret.status.source \in {"memory_cache", "api", "cache_fallback"}
           /\ (call.force_refresh /\ ~TokenAbsent(call.entry.token)) => call.gets >= 1

\* C6: when every page asked for answers 200 and the pages carry at least one
\* task, the returned list is the concatenation, in page order, of the pages up
\* to and including the first short one, tasks.json and the in-memory list both
\* equal exactly that list, and the status is success=true, source=api, error=null.
C6_FetchOverwrites ==
    (AllPagesOk /\ Concatenated(call.script, Len(call.script)) # <<>>)
        => /\ call.gets = FirstShortPage
           /\ ret.missions = Concatenated(call.script, FirstShortPage)
           /\ tasks_json = JsonFile(ret.missions)
           /\ _cached_missions = Some(ret.missions)
           /\ ret.status = ApiStatus(TRUE, "api", NoError)
           /\ ret.raised = "none"

\* C6 witness: two pages fetched over a different previous cache
C6_Witness ==
    /\ AllPagesOk
    /\ call.gets = 2
    /\ call.entry.disk = JsonFile(<<M1, M2>>)
    /\ call.entry.cached = Some(<<M1, M2>>)
    /\ ret.missions = FullPage \o <<M2, M1>>
    /\ tasks_json = JsonFile(FullPage \o <<M2, M1>>)

\* C7: with the token file missing, unreadable or empty, a call that reaches the
\* remote-fetch tier returns the content of tasks.json with success=false,
\* source=cache_fallback, issues no GET and changes neither tasks.json nor the
\* in-memory list.
C7_NoTokenShortCircuit ==
    (call.tier = "remote" /\ TokenAbsent(call.entry.token))
        => /\ ret.missions = FileContent(call.entry.disk)
           /\ ret.status.success = FALSE
           /\ ret.status.source = "cache_fallback"
           /\ call.gets = 0
           /\ tasks_json = call.entry.disk
           /\ _cached_missions = call.entry.cached

\* C7 witness: a forced refresh with a blank token file over a loaded cache
C7_Witness ==
    /\ call.tier = "remote"
    /\ call.op = "get_all_missions"
    /\ call.entry.token = [kind |-> "text", text |-> <<" ">>]
    /\ call.entry.cached = Some(<<M1>>)
    /\ ret.missions = <<M1>>
    /\ ret.status.source = "cache_fallback"

(***************************************************************************)
(* Attachments: names.  A filename or an id is a sequence of characters.   *)
(***************************************************************************)
\* str(uuid.uuid4()) of the k-th draw: fresh each time, never holding "_"
UuidChars == <<"a", "b", "c", "d", "e", "f">>
Uuid(k) == <<UuidChars[k]>>
Uuids == {Uuid(k) : k \in 1..MaxUploads}

\* ids the remote assigns to uploaded attachments
RemoteIds == {<<"X">>, <<"Y">>}

\* secure_filename(file.filename) of the files a browser may send
OriginalNames == {<<"n", ".", "t">>, <<"m", "_", "n">>}

\* str.startswith
StartsWith(s, prefix) ==
    Len(s) >= Len(prefix) /\ SubSeq(s, 1, Len(prefix)) = prefix

\* f"{id}_{name}"
Prefixed(id, name) == id \o <<"_">> \o name

\* positions of character c in s
Positions(s, c) == {i \in 1..Len(s) : s[i] = c}

Max(S) == CHOOSE x \in S : \A y \in S : y <= x
Min(S) == CHOOSE x \in S : \A y \in S : x <= y

\* filename.split('_', 1)[1] if '_' in filename else filename
AfterFirstUnderscore(filename) ==
    IF Positions(filename, "_") = {} THEN filename
    ELSE SubSeq(filename, Min(Positions(filename, "_")) + 1, Len(filename))

\* os.path.splitext(filename)[0]: cut at the last dot, unless only dots precede it
SplitExtRoot(filename) ==
    LET dots == Positions(filename, ".") IN
    IF dots = {} THEN filename
    ELSE LET last == Max(dots) IN
         IF \E i \in 1..(last - 1) : filename[i] # "."
         THEN SubSeq(filename, 1, last - 1)
         ELSE filename

(***************************************************************************)
(* Attachments: the directory.  dir = [files, sidecars]                    *)
(***************************************************************************)
Dir == [files |-> files, sidecars |-> sidecars]

HasSidecar(dir, filename) == filename \in DOMAIN dir.sidecars

\* open(path, 'w'); json.dump(meta): creates or overwrites the sidecar
WriteSidecar(dir, filename, meta) ==
    [dir EXCEPT !.sidecars = (filename :> meta) @@ dir.sidecars]

RemoveSidecar(dir, filename) ==
    [dir EXCEPT !.sidecars = [k \in (DOMAIN dir.sidecars) \ {filename} |-> dir.sidecars[k]]]

RemoveFile(dir, filename) == [dir EXCEPT !.files = dir.files \ {filename}]

\* os.rename of the file: the target name is taken over
RenameFile(dir, old, new) ==
    [dir EXCEPT !.files = (dir.files \ {old}) \cup {new}]

\* os.rename of the sidecar metadata/{old}.json to metadata/{new}.json
RenameSidecar(dir, old, new) ==
    LET meta == dir.sidecars[old] IN WriteSidecar(RemoveSidecar(dir, old), new, meta)

\* the metadata written when a file is stored locally
NewMetadata(attachment_id, original_filename, filename) ==
    [id |-> attachment_id, original_filename |-> original_filename,
     filename |-> filename, uploaded_to_api |-> FALSE, synack_id |-> None]

\* os.path.isfile(file_path) and not filename.startswith('temp_')
Listed(dir) == {f \in dir.files : ~StartsWith(f, <<"t", "e", "m", "p", "_">>)}

(***************************************************************************)
(* Attachments: the missions of the warm cache and the remote's replies    *)
(***************************************************************************)
\* a mission object: its id and whether it carries organizationUid,
\* listingUid and campaignUid
Mission(id, uids) == [id |-> id, uids |-> uids]

\* get_mission_by_id over the list get_all_missions() returns
get_mission_by_id(missions, mission_id) ==
    LET hits == {i \in 1..Len(missions) : missions[i].id = mission_id} IN
    IF hits = {} THEN None ELSE Some(missions[Min(hits)])

\* the token as the upload helpers read it: [raised, token]
ReadUploadToken(tf) ==
    CASE tf.kind = "missing" -> [raised |-> FALSE, token |-> None]
      [] tf.kind = "unreadable" -> [raised |-> TRUE, token |-> None]
      [] OTHER -> [raised |-> FALSE, token |-> Some(Strip(tf.text))]

\* one item of the attachment API's answer: the id it assigned, if any
NoId == None
ApiItems == {Some(r) : r \in RemoteIds} \cup {NoId}

\* what the POST of n files may bring: an exception, a status other than 200
\* and 201, or a JSON answer: the items for the first n files, and whether
\* further items follow them (their content is never read)
Reply(kind, items, more) == [kind |-> kind, items |-> items, more |-> more]
NoReply == Reply("exc", <<>>, FALSE)
PostFailures == {NoReply, Reply("status", <<>>, FALSE), Reply("ok", <<>>, FALSE)}
PostReplies(n) ==
    PostFailures
    \cup {Reply("ok", items, FALSE) : items \in UNION {[1..k -> ApiItems] : k \in 1..n}}
    \cup {Reply("ok", items, TRUE) : items \in [1..n -> ApiItems]}

\* a single upload reads the id of a dict answer or of a list's first item
SingleReplies ==
    PostFailures \cup {Reply("ok", <<item>>, FALSE) : item \in ApiItems}

(***************************************************************************)
(* Attachments: upload_attachments and upload_single_attachment            *)
(***************************************************************************)
\* the entry of uploaded_files for a stored file; with_paths says whether the
\* handler put 'file_path', 'metadata_path' and 'content_type' into the dict
UploadedFile(attachment_id, original_filename, with_paths) ==
    [id |-> attachment_id, filename |-> Prefixed(attachment_id, original_filename),
     original_filename |-> original_filename, with_paths |-> with_paths]

\* `for file in files: if file.filename:` store the file and its sidecar under a
\* fresh UUID.  An empty name stands for a form part without a filename.
RECURSIVE StoreLocally(_, _, _, _, _)
StoreLocally(batch, i, drawn, with_paths, acc) ==
    IF i > Len(batch) THEN acc
    ELSE IF batch[i] = <<>> THEN StoreLocally(batch, i + 1, drawn, with_paths, acc)
    ELSE LET item == UploadedFile(Uuid(drawn + 1), batch[i], with_paths)
             stored == [acc.dir EXCEPT !.files = @ \cup {item.filename}]
             written == WriteSidecar(stored, item.filename,
                                     NewMetadata(item.id, item.original_filename, item.filename))
         IN  StoreLocally(batch, i + 1, drawn + 1, with_paths,
                          [dir |-> written, uploaded_files |-> Append(acc.uploaded_files, item)])

ApiResult(success, items, more) ==
    [called |-> TRUE, success |-> success, items |-> items, more |-> more]

\* whether an upload helper gets as far as requests.post: the token is read and
\* not empty, the mission has its three UIDs, and (multi-upload) every entry of
\* attachments has the 'file_path' the helper opens
ReachesPost(with_paths, mission, tf) ==
    LET read == ReadUploadToken(tf) IN
    /\ ~read.raised
    /\ ~NotToken(read.token)
    /\ mission.uids
    /\ with_paths

\* upload_multiple_attachments_to_api: (success, message, api_results); every
\* exception inside, a KeyError of att['file_path'] included, gives success False
upload_multiple_attachments_to_api(attachments, mission, tf, reply) ==
    IF ~ReachesPost(\A k \in 1..Len(attachments) : attachments[k].with_paths, mission, tf)
    THEN ApiResult(FALSE, <<>>, FALSE)
    ELSE IF reply.kind # "ok" \/ reply.items = <<>> THEN ApiResult(FALSE, <<>>, FALSE)
    ELSE ApiResult(TRUE, reply.items, reply.more)

\* mutant of RollBack: only the files are removed, the sidecars stay
RECURSIVE RollBack_FilesOnly(_, _, _)
RollBack_FilesOnly(dir, uploaded_files, i) ==
    IF i > Len(uploaded_files) THEN dir
    ELSE LET u == uploaded_files[i] IN
         RollBack_FilesOnly(IF u.with_paths THEN RemoveFile(dir, u.filename) ELSE dir,
                            uploaded_files, i + 1)

\* the rollback loop: os.remove of u['file_path'] and u['metadata_path'] where
\* they exist; an exception (a KeyError too) is passed over
RECURSIVE RollBack(_, _, _)
RollBack(dir, uploaded_files, i) ==
    IF i > Len(uploaded_files) THEN dir
    ELSE LET u == uploaded_files[i] IN
         RollBack(IF u.with_paths
                  THEN RemoveSidecar(RemoveFile(dir, u.filename), u.filename)
                  ELSE dir,
                  uploaded_files, i + 1)

\* mutant of PromoteLocalItem: the sidecar is updated, nothing is renamed
PromoteLocalItem_NoRename(dir, local_item, synack_id) ==
    IF ~HasSidecar(dir, local_item.filename) THEN dir
    ELSE WriteSidecar(dir, local_item.filename,
                      [dir.sidecars[local_item.filename]
                          EXCEPT !.synack_id = Some(synack_id), !.uploaded_to_api = TRUE])

\* one turn of `for api_item, local_item in zip(api_results, uploaded_files)`
\* with an id: the sidecar takes synack_id and uploaded_to_api, then file and
\* sidecar are renamed to {synack_id}_{base}; a failing step ends the turn
PromoteLocalItem(dir, local_item, synack_id) ==
    IF ~HasSidecar(dir, local_item.filename) THEN dir
    ELSE LET meta == [dir.sidecars[local_item.filename]
                         EXCEPT !.synack_id = Some(synack_id), !.uploaded_to_api = TRUE]
             marked == WriteSidecar(dir, local_item.filename, meta)
         IN  IF StartsWith(local_item.filename, synack_id \o <<"_">>) THEN marked
             ELSE LET new_filename ==
                          Prefixed(synack_id, AfterFirstUnderscore(local_item.filename))
                      renamed == RenameSidecar(
                                     RenameFile(marked, local_item.filename, new_filename),
                                     local_item.filename, new_filename)
                  IN  WriteSidecar(renamed, new_filename,
                                   [meta EXCEPT !.filename = new_filename])

\* the zip loop from pair i on: [dir, raised]; local_item['metadata_path'] of a
\* dict without that key raises out of the loop
RECURSIVE ApplyRemoteIds(_, _, _, _)
ApplyRemoteIds(dir, api_results, uploaded_files, i) ==
    IF i > Len(api_results) \/ i > Len(uploaded_files)
    THEN [dir |-> dir, raised |-> FALSE]
    ELSE IF api_results[i] = NoId
    THEN ApplyRemoteIds(dir, api_results, uploaded_files, i + 1)
    ELSE IF ~uploaded_files[i].with_paths
    THEN [dir |-> dir, raised |-> TRUE]
    ELSE ApplyRemoteIds(PromoteLocalItem(dir, uploaded_files[i], api_results[i][1]),
                        api_results, uploaded_files, i + 1)

\* the handler from the local store on: [dir, uploaded_files, api, http, success]
UploadBody(dir, batch, drawn, with_paths, mission, tf, reply) ==
    LET local == StoreLocally(batch, 1, drawn, with_paths,
                              [dir |-> dir, uploaded_files |-> <<>>])
        api == upload_multiple_attachments_to_api(local.uploaded_files, mission, tf, reply)
    IN  IF ~api.success
        THEN [dir |-> RollBack(local.dir, local.uploaded_files, 1),
              uploaded_files |-> local.uploaded_files, api |-> api,
              http |-> 500, success |-> FALSE]
        ELSE LET applied == ApplyRemoteIds(local.dir, api.items, local.uploaded_files, 1)
                 \* uploaded_files[idx]['synack_id'] = ... for every api item
                 index_error == api.more \/ Len(api.items) > Len(local.uploaded_files)
                 failed == applied.raised \/ index_error
             IN  [dir |-> applied.dir, uploaded_files |-> local.uploaded_files,
                  api |-> api, http |-> IF failed THEN 500 ELSE 200,
                  success |-> ~failed]

\* the mission list a handler gets from get_all_missions(); the process has done
\* its startup preload, so the call is answered from memory without a request
MissionsNow == GetAllMissions(State, FALSE, <<NetworkError>>)

\* the cache as get_mission_by_id leaves it
MissionsFetched ==
    /\ tasks_json' = MissionsNow.disk
    /\ _cached_missions' = MissionsNow.cached
    /\ _has_loaded_initial' = MissionsNow.loaded
    /\ _last_fetch_time' = MissionsNow.last_fetch
    /\ UNCHANGED <<calls, last_list, call, ret, token_file>>

MissionLookedUp == MissionsFetched /\ UNCHANGED <<templVars, draftVars>>

MissionIds == {M1, M2}

\* the form's file parts: secured names, led or not by a part without a
\* filename, which is <<>>
NamedBatches == UNION {[1..k -> OriginalNames] : k \in 1..MaxUploads}
Batches ==
    NamedBatches \cup {<<<<>>>>}
    \cup {<<<<>>>> \o batch : batch \in {b \in NamedBatches : Len(b) < MaxUploads}}

NamedParts(batch) == {i \in 1..Len(batch) : batch[i] # <<>>}

\* "Mission not found", 404: the handler ends before it looks at anything else
MissionNotFound(op, mission_id) ==
    /\ get_mission_by_id(MissionsNow.missions, mission_id) = None
    /\ MissionLookedUp
    /\ req' = [NoRequest EXCEPT !.op = op, !.mission_id = mission_id,
                                !.http = 404, !.before = Dir]
    /\ UNCHANGED <<files, sidecars, uuid_count>>

\* both upload handlers: they differ in the keys of the uploaded_files entries
UploadRequest(op, with_paths) ==
    \E mission_id \in MissionIds :
        LET mission == get_mission_by_id(MissionsNow.missions, mission_id)
            answer(http) == [NoRequest EXCEPT !.op = op, !.mission_id = mission_id,
                                              !.http = http, !.before = Dir]
        IN  \/ MissionNotFound(op, mission_id)
            \/ /\ mission # None
               /\ MissionLookedUp
               /\ \E batch \in Batches :
                      /\ uuid_count + Cardinality(NamedParts(batch)) <= MaxUploads
                      /\ IF NamedParts(batch) = {}
                         THEN /\ req' = answer(400)
                              /\ UNCHANGED <<files, sidecars, uuid_count>>
                         ELSE \E reply \in IF ReachesPost(with_paths, mission[1], token_file)
                                           THEN PostReplies(Cardinality(NamedParts(batch)))
                                           ELSE {NoReply} :
                                LET r == UploadBody(Dir, batch, uuid_count, with_paths,
                                                    mission[1], token_file, reply)
                                IN  /\ files' = r.dir.files
                                    /\ sidecars' = r.dir.sidecars
                                    /\ uuid_count' = uuid_count + Len(r.uploaded_files)
                                    /\ req' = [answer(r.http) EXCEPT
                                                  !.success = r.success,
                                                  !.uploaded_files = r.uploaded_files,
                                                  !.api = r.api]

upload_attachments == UploadRequest("upload_attachments", TRUE)

upload_single_attachment == UploadRequest("upload_single_attachment", FALSE)

(***************************************************************************)
(* Attachments: lookup by id.  os.listdir gives the files in no fixed      *)
(* order, so a loop that breaks at its first match may settle on any file  *)
(* that matches.                                                           *)
(***************************************************************************)
LookupIds == Uuids \cup RemoteIds

\* metadata.get(key) == attachment_id, where the sidecar exists
SidecarSays(dir, filename, key, attachment_id) ==
    /\ HasSidecar(dir, filename)
    /\ IF key = "synack_id"
       THEN dir.sidecars[filename].synack_id = Some(attachment_id)
       ELSE dir.sidecars[filename].id = attachment_id

\* download_attachment and delete_synack_attachment: prefix, name without
\* extension, or the sidecar's synack_id
MatchesBySynackId(dir, filename, attachment_id) ==
    \/ StartsWith(filename, attachment_id \o <<"_">>)
    \/ SplitExtRoot(filename) = attachment_id
    \/ SidecarSays(dir, filename, "synack_id", attachment_id)

\* upload_to_api: prefix, name without extension, or the sidecar's id
MatchesByLocalId(dir, filename, attachment_id) ==
    \/ StartsWith(filename, attachment_id \o <<"_">>)
    \/ SplitExtRoot(filename) = attachment_id
    \/ SidecarSays(dir, filename, "id", attachment_id)

\* what a request with nothing but the mission lookup and an id starts from
Lookup(op, mission_id, attachment_id) ==
    [NoRequest EXCEPT !.op = op, !.mission_id = mission_id,
                      !.attachment_id = attachment_id, !.before = Dir]

download_attachment ==
    \E mission_id \in MissionIds :
        \/ MissionNotFound("download_attachment", mission_id)
        \/ \E attachment_id \in LookupIds :
            LET matching == {f \in Listed(Dir) : MatchesBySynackId(Dir, f, attachment_id)}
                asked == Lookup("download_attachment", mission_id, attachment_id)
            IN  /\ get_mission_by_id(MissionsNow.missions, mission_id) # None
                /\ MissionLookedUp
                /\ UNCHANGED <<files, sidecars, uuid_count>>
                /\ IF matching = {}
                   THEN req' = [asked EXCEPT !.http = 404]
                   ELSE \E filename \in matching :
                          req' = [asked EXCEPT !.http = 200, !.success = TRUE,
                                               !.candidates = matching, !.chosen = filename]

\* SentToRemoteDelete where any file with a sidecar is sent
SentToRemoteDelete_AnySidecar(dir, filename) == HasSidecar(dir, filename)

\* the remote DELETE is sent for a file whose sidecar says uploaded_to_api and
\* holds a synack_id
SentToRemoteDelete(dir, filename) ==
    /\ HasSidecar(dir, filename)
    /\ dir.sidecars[filename].uploaded_to_api
    /\ dir.sidecars[filename].synack_id # None

\* os.remove of each matching file and of its sidecar
RECURSIVE RemoveAll(_, _)
RemoveAll(dir, filenames) ==
    IF filenames = {} THEN dir
    ELSE LET f == CHOOSE x \in filenames : TRUE IN
         RemoveAll(RemoveSidecar(RemoveFile(dir, f), f), filenames \ {f})

\* what the loop over matching_files does, in its order: the call of
\* delete_evidence_from_api for a file sent to the remote, then os.remove
RECURSIVE DeleteEvents(_, _, _)
DeleteEvents(dir, filenames, acc) ==
    IF filenames = {} THEN acc
    ELSE LET f == CHOOSE x \in filenames : TRUE
             remote == IF SentToRemoteDelete(dir, f)
                       THEN <<[event |-> "delete_evidence_from_api", file |-> f]>>
                       ELSE <<>>
         IN  DeleteEvents(dir, filenames \ {f},
                          acc \o remote \o <<[event |-> "os.remove", file |-> f]>>)

delete_synack_attachment ==
    \E mission_id \in MissionIds :
      \/ MissionNotFound("delete_synack_attachment", mission_id)
      \/ \E attachment_id \in LookupIds :
        LET mission == get_mission_by_id(MissionsNow.missions, mission_id)
            matching_files == {f \in Listed(Dir) : MatchesBySynackId(Dir, f, attachment_id)}
            sent == {f \in matching_files : SentToRemoteDelete(Dir, f)}
            asked == Lookup("delete_synack_attachment", mission_id, attachment_id)
        IN  /\ mission # None
            /\ MissionLookedUp
            /\ UNCHANGED uuid_count
            /\ IF matching_files = {}
               THEN /\ req' = [asked EXCEPT !.http = 404]
                    /\ UNCHANGED <<files, sidecars>>
               ELSE \E api_deleted \in SUBSET sent :
                      \* delete_evidence_from_api fails without a token
                      /\ NotToken(read_auth_token(token_file)) => api_deleted = {}
                      /\ LET after == RemoveAll(Dir, matching_files)
                             api_deleted_overall == api_deleted # {}
                             api_error == sent \ api_deleted # {}
                         IN  /\ files' = after.files
                             /\ sidecars' = after.sidecars
                             /\ req' = [asked EXCEPT
                                          !.http = 200, !.success = TRUE,
                                          !.candidates = matching_files,
                                          !.remote_deletes = sent,
                                          !.remote_failed = sent \ api_deleted,
                                          !.log = DeleteEvents(Dir, matching_files, <<>>),
                                          !.api = [NotCalled EXCEPT
                                                     !.called = sent # {},
                                                     !.success = api_deleted_overall],
                                          !.api_warning = api_error /\ ~api_deleted_overall]

\* upload_to_api from the file found on: the sidecar is marked, then file and
\* sidecar are renamed to {synack_id}_{base}
PromoteFound(dir, attachment_file, synack_id) ==
    LET metadata == IF HasSidecar(dir, attachment_file)
                    THEN dir.sidecars[attachment_file]
                    ELSE NewMetadata(<<>>, <<>>, <<>>)
        meta == [metadata EXCEPT !.synack_id = Some(synack_id), !.uploaded_to_api = TRUE]
        marked == WriteSidecar(dir, attachment_file, meta)
    IN  IF StartsWith(attachment_file, synack_id \o <<"_">>) THEN marked
        ELSE LET new_filename == Prefixed(synack_id, AfterFirstUnderscore(attachment_file))
                 renamed == RenameSidecar(RenameFile(marked, attachment_file, new_filename),
                                          attachment_file, new_filename)
             IN  WriteSidecar(renamed, new_filename, [meta EXCEPT !.filename = new_filename])

upload_to_api ==
    \E mission_id \in MissionIds :
      \/ MissionNotFound("upload_to_api", mission_id)
      \/ \E attachment_id \in LookupIds :
        LET mission == get_mission_by_id(MissionsNow.missions, mission_id)
            matching == {f \in Listed(Dir) : MatchesByLocalId(Dir, f, attachment_id)}
            asked == Lookup("upload_to_api", mission_id, attachment_id)
        IN  /\ mission # None
            /\ MissionLookedUp
            /\ UNCHANGED uuid_count
            /\ IF matching = {}
               THEN /\ req' = [asked EXCEPT !.http = 404]
                    /\ UNCHANGED <<files, sidecars>>
               ELSE \E attachment_file \in matching :
                      LET found == [asked EXCEPT !.candidates = matching,
                                                 !.chosen = attachment_file]
                          read == ReadUploadToken(token_file)
                      IN  IF /\ HasSidecar(Dir, attachment_file)
                             /\ sidecars[attachment_file].uploaded_to_api
                          THEN \* 'already_uploaded': True
                               /\ req' = [found EXCEPT !.http = 200, !.success = TRUE]
                               /\ UNCHANGED <<files, sidecars>>
                          ELSE IF ~ReachesPost(TRUE, mission[1], token_file)
                          THEN /\ req' = [found EXCEPT !.http =
                                            IF read.raised THEN 500
                                            ELSE IF NotToken(read.token) THEN 401 ELSE 400]
                               /\ UNCHANGED <<files, sidecars>>
                          ELSE \E reply \in SingleReplies :
                                 \* the id of a dict answer, or of a list's first item
                                 LET synack_id == IF reply.kind = "ok" /\ reply.items # <<>>
                                                  THEN reply.items[1] ELSE NoId
                                 IN  IF synack_id = NoId
                                     THEN /\ req' = [found EXCEPT !.http = 500,
                                                       !.api = ApiResult(FALSE, <<>>, FALSE)]
                                          /\ UNCHANGED <<files, sidecars>>
                                     ELSE LET after == PromoteFound(Dir, attachment_file,
                                                                    synack_id[1])
                                          IN  /\ files' = after.files
                                              /\ sidecars' = after.sidecars
                                              /\ req' = [found EXCEPT
                                                           !.http = 200, !.success = TRUE,
                                                           !.api = ApiResult(TRUE, <<synack_id>>,
                                                                             FALSE)]

(***************************************************************************)
(* Attachments: a file operation fails inside a request                    *)
(***************************************************************************)
\* the steps of the rename in upload_to_api, any of which may raise
RenameSteps == {"rename_file", "rename_metadata", "write_metadata"}

\* PromoteFound when the step `failing` raises: what was done before it stays
PromoteFoundUntil(dir, attachment_file, synack_id, failing) ==
    LET meta == [dir.sidecars[attachment_file] EXCEPT !.synack_id = Some(synack_id),
                                                     !.uploaded_to_api = TRUE]
        marked == WriteSidecar(dir, attachment_file, meta)
        new_filename == Prefixed(synack_id, AfterFirstUnderscore(attachment_file))
        file_renamed == RenameFile(marked, attachment_file, new_filename)
    IN  CASE failing = "rename_file" -> marked
          [] failing = "rename_metadata" -> file_renamed
          [] OTHER -> RenameSidecar(file_renamed, attachment_file, new_filename)

\* upload_to_api where the remote accepted the file and a step of the rename
\* raises: `except Exception` logs it ("Not critical") and the answer is 200
upload_to_api_RenameFails ==
    \E mission_id \in MissionIds, attachment_id \in LookupIds, failing \in RenameSteps :
        LET mission == get_mission_by_id(MissionsNow.missions, mission_id)
            matching == {f \in Listed(Dir) : MatchesByLocalId(Dir, f, attachment_id)}
        IN  /\ mission # None
            /\ MissionLookedUp
            /\ UNCHANGED uuid_count
            /\ \E attachment_file \in matching, reply \in SingleReplies :
                  /\ HasSidecar(Dir, attachment_file)
                  /\ ~sidecars[attachment_file].uploaded_to_api
                  /\ ReachesPost(TRUE, mission[1], token_file)
                  /\ reply.kind = "ok" /\ reply.items # <<>> /\ reply.items[1] # NoId
                  /\ ~StartsWith(attachment_file, reply.items[1][1] \o <<"_">>)
                  /\ LET synack_id == reply.items[1]
                         after == PromoteFoundUntil(Dir, attachment_file, synack_id[1], failing)
                     IN  /\ files' = after.files
                         /\ sidecars' = after.sidecars
                         /\ req' = [Lookup("upload_to_api", mission_id, attachment_id) EXCEPT
                                      !.candidates = matching, !.chosen = attachment_file,
                                      !.http = 200, !.success = TRUE,
                                      !.api = ApiResult(TRUE, <<synack_id>>, FALSE)]

\* delete_synack_attachment where an os.remove raises at the file `failing`,
\* after the files `done` were removed: the file's own remove, or the remove
\* of its sidecar once the file is gone.  The answer is 500.
delete_synack_attachment_RemoveFails ==
    \E mission_id \in MissionIds, attachment_id \in LookupIds, at_sidecar \in BOOLEAN :
        LET mission == get_mission_by_id(MissionsNow.missions, mission_id)
            matching_files == {f \in Listed(Dir) : MatchesBySynackId(Dir, f, attachment_id)}
        IN  /\ mission # None
            /\ MissionLookedUp
            /\ UNCHANGED uuid_count
            /\ \E failing \in matching_files :
                 \E done \in SUBSET (matching_files \ {failing}) :
                  /\ at_sidecar => HasSidecar(Dir, failing)
                  /\ LET removed == RemoveAll(Dir, done)
                         after == IF at_sidecar THEN RemoveFile(removed, failing)
                                  ELSE removed
                         tried == done \cup {failing}
                         sent == {f \in tried : SentToRemoteDelete(Dir, f)}
                     IN  /\ files' = after.files
                         /\ sidecars' = after.sidecars
                         /\ req' = [Lookup("delete_synack_attachment", mission_id,
                                           attachment_id) EXCEPT
                                      !.http = 500, !.candidates = matching_files,
                                      !.chosen = failing, !.remote_deletes = sent,
                                      !.api = [NotCalled EXCEPT !.called = sent # {}]]


(***************************************************************************)
(* Attachments: mission_attachments                                        *)
(***************************************************************************)
\* `extensions = []`: the extensions the handler globs the directory for
extensions == {}

\* glob.glob(os.path.join(upload_dir, f'*.{ext}'))
Glob(dir, ext) ==
    {f \in dir.files :
        /\ Len(f) > Len(ext)
        /\ SubSeq(f, Len(f) - Len(ext), Len(f)) = <<".">> \o ext}

\* all_files, without the temp_ files the loop skips
AllFiles(dir) ==
    {f \in UNION {Glob(dir, ext) : ext \in extensions} :
        ~StartsWith(f, <<"t", "e", "m", "p", "_">>)}

\* 'uploaded_at' of a local file: every local file is younger than what the
\* remote lists
LocalUploadedAt == 3

\* the entry of a local file: the one-character ids of the model never pass
\* `'-' in potential_id and len(potential_id) >= 36`, so synack_id comes from
\* the sidecar
LocalAttachment(dir, file_name) ==
    LET synack_id == IF HasSidecar(dir, file_name)
                     THEN dir.sidecars[file_name].synack_id ELSE None
    IN  [id |-> IF synack_id # None THEN synack_id[1] ELSE SplitExtRoot(file_name),
         filename |-> file_name, uploaded_at |-> LocalUploadedAt, remote |-> FALSE]

\* attachments_dict[id] = entry: a known key keeps its place, a new key is last
PutAttachment(attachments_dict, entry) ==
    IF \E k \in 1..Len(attachments_dict) : attachments_dict[k].id = entry.id
    THEN [k \in 1..Len(attachments_dict) |->
             IF attachments_dict[k].id = entry.id THEN entry ELSE attachments_dict[k]]
    ELSE Append(attachments_dict, entry)

RECURSIVE LoadLocal(_, _, _)
LoadLocal(dir, file_names, attachments_dict) ==
    IF file_names = {} THEN attachments_dict
    ELSE LET f == CHOOSE x \in file_names : TRUE IN
         LoadLocal(dir, file_names \ {f},
                   PutAttachment(attachments_dict, LocalAttachment(dir, f)))

\* the items the remote lists: an id or none, and createdOn
ListedItems ==
    {[id |-> Some(<<"X">>), createdOn |-> 1], [id |-> Some(<<"Y">>), createdOn |-> 2],
     [id |-> NoId, createdOn |-> 1]}
MaxListed == 2
\* an item without id is listed first if at all
RemoteListings ==
    {api_data \in UNION {[1..k -> ListedItems] : k \in 0..MaxListed} :
        \A i \in 2..Len(api_data) : api_data[i].id # NoId}

\* `if att_id and att_id not in attachments_dict`
RECURSIVE MergeRemote(_, _, _)
MergeRemote(attachments_dict, api_data, i) ==
    IF i > Len(api_data) THEN attachments_dict
    ELSE LET item == api_data[i]
             known == \E k \in 1..Len(attachments_dict) :
                         attachments_dict[k].id = item.id[1]
         IN  MergeRemote(IF item.id # NoId /\ ~known
                         THEN Append(attachments_dict,
                                     [id |-> item.id[1], filename |-> <<>>,
                                      uploaded_at |-> item.createdOn, remote |-> TRUE])
                         ELSE attachments_dict,
                         api_data, i + 1)

\* attachments.sort(key=uploaded_at, reverse=True): stable, equal keys keep
\* their order
RECURSIVE SortNewestFirst(_)
SortNewestFirst(attachments) ==
    IF attachments = <<>> THEN <<>>
    ELSE LET newest == Max({attachments[k].uploaded_at : k \in 1..Len(attachments)})
             first == Min({k \in 1..Len(attachments) : attachments[k].uploaded_at = newest})
         IN  <<attachments[first]>>
             \o SortNewestFirst(SubSeq(attachments, 1, first - 1)
                                 \o SubSeq(attachments, first + 1, Len(attachments)))

\* the GET of the remote list is made with a token and the mission's UIDs; a
\* status other than 200 and 201 or an exception leaves the local entries
mission_attachments ==
    \E mission_id \in MissionIds :
        LET mission == get_mission_by_id(MissionsNow.missions, mission_id)
            asked == [NoRequest EXCEPT !.op = "mission_attachments",
                                       !.mission_id = mission_id,
                                       !.http = 200, !.success = TRUE, !.before = Dir]
        IN  /\ MissionLookedUp
            /\ UNCHANGED <<files, sidecars, uuid_count>>
            /\ IF mission = None
               THEN req' = asked
               ELSE LET local == LoadLocal(Dir, AllFiles(Dir), <<>>)
                        read == ReadUploadToken(token_file)
                    IN  IF read.raised
                        THEN req' = [asked EXCEPT !.success = FALSE]
                        ELSE IF NotToken(read.token) \/ ~mission[1].uids
                        THEN req' = [asked EXCEPT !.attachments = SortNewestFirst(local)]
                        ELSE \E ok \in BOOLEAN, api_data \in RemoteListings :
                               /\ ~ok => api_data = <<>>
                               /\ req' = [asked EXCEPT
                                            !.api = [NotCalled EXCEPT !.called = TRUE,
                                                                      !.success = ok],
                                            !.listing = api_data,
                                            !.attachments =
                                                SortNewestFirst(
                                                    MergeRemote(local, api_data, 1))]

(***************************************************************************)
(* Attachments: specification.  The process has started: app.py has made   *)
(* its preloading get_all_missions() call over a tasks.json holding the    *)
(* mission, whose upload directory is still empty.                         *)
(***************************************************************************)
AttachInit ==
    /\ AttachIdle
    /\ TemplIdle
    /\ token_file \in TokenFiles
    /\ \E uids \in BOOLEAN :
          LET fresh == [disk |-> JsonFile(<<Mission(M1, uids)>>), token |-> token_file,
                        cached |-> None, loaded |-> FALSE, last_fetch |-> "zero"]
              r == GetAllMissions(fresh, FALSE, <<NetworkError>>)
          IN  /\ tasks_json = r.disk
              /\ _cached_missions = r.cached
              /\ _has_loaded_initial = r.loaded
              /\ _last_fetch_time = r.last_fetch
              /\ calls = 1
              /\ last_list = Some(r.missions)
              /\ call = [op |-> "get_all_missions", force_refresh |-> FALSE,
                         entry |-> fresh, last |-> None, tier |-> r.tier,
                         gets |-> r.gets, exit |-> r.exit, script |-> <<>>]
              /\ ret = [missions |-> r.missions, status |-> r.status, raised |-> r.raised]

AttachNext ==
    \/ upload_attachments
    \/ upload_single_attachment
    \/ upload_to_api
    \/ download_attachment
    \/ delete_synack_attachment

AttachSpec == AttachInit /\ [][AttachNext]_vars

\* the listing route next to the routes that fill and empty the directory
ListNext ==
    \/ upload_attachments
    \/ upload_single_attachment
    \/ delete_synack_attachment
    \/ mission_attachments

ListSpec == AttachInit /\ [][ListNext]_vars

\* the routes that change the directory, with and without a failing file
\* operation
FaultNext ==
    \/ upload_attachments
    \/ upload_single_attachment
    \/ upload_to_api
    \/ delete_synack_attachment
    \/ upload_to_api_RenameFails
    \/ delete_synack_attachment_RemoveFails

FaultSpec == AttachInit /\ [][FaultNext]_vars

(***************************************************************************)
(* Templates: text.  A text is a sequence of characters; a word of a tag   *)
(* (Testing, TESTING, Other ...) is carried as one character, since no     *)
(* operation of the code splits it.                                        *)
(***************************************************************************)
NL == "\n"

\* template_utils.py: section_names, the alternatives of the pattern
section_names ==
    <<"Introduction", "Testing", "Documentation", "conclusion-fail", "conclusion-pass",
      "Scripts">>
PatternNames == {section_names[k] : k \in 1..Len(section_names)}

\* str.lower() of a word
Lower(word) ==
    CASE word \in {"Introduction", "INTRODUCTION"} -> "introduction"
      [] word \in {"Testing", "TESTING"} -> "testing"
      [] word = "Documentation" -> "documentation"
      [] word \in {"conclusion-fail", "Conclusion-Fail"} -> "conclusion-fail"
      [] word \in {"conclusion-pass", "Conclusion-Pass"} -> "conclusion-pass"
      [] word \in {"Scripts", "SCRIPTS"} -> "scripts"
      [] word = "Other" -> "other"
      [] OTHER -> word

\* str.strip(): blanks and newlines off both ends
IsSpace(c) == c \in {" ", NL}

RECURSIVE LStripWs(_)
LStripWs(s) == IF s # <<>> /\ IsSpace(Head(s)) THEN LStripWs(Tail(s)) ELSE s

RECURSIVE RStripWs(_)
RStripWs(s) ==
    IF s # <<>> /\ IsSpace(s[Len(s)]) THEN RStripWs(SubSeq(s, 1, Len(s) - 1)) ELSE s

StripWs(s) == RStripWs(LStripWs(s))

\* content.split('\n')
RECURSIVE SplitLines(_)
SplitLines(content) ==
    IF Positions(content, NL) = {} THEN <<content>>
    ELSE LET i == Min(Positions(content, NL))
         IN  <<SubSeq(content, 1, i - 1)>>
             \o SplitLines(SubSeq(content, i + 1, Len(content)))

\* "\n".join(lines)
RECURSIVE JoinLines(_)
JoinLines(lines) ==
    IF lines = <<>> THEN <<>>
    ELSE IF Len(lines) = 1 THEN lines[1]
    ELSE lines[1] \o <<NL>> \o JoinLines(Tail(lines))

\* sections.get(key, default) and sections[key] = value
GetSection(sections, key, default) ==
    IF key \in DOMAIN sections THEN sections[key] ELSE default
PutSection(sections, key, value) ==
    [k \in DOMAIN sections \cup {key} |-> IF k = key THEN value ELSE sections[k]]

(***************************************************************************)
(* Templates: parse_template                                               *)
(***************************************************************************)
\* pattern.finditer: ^\[(name)\] with re.MULTILINE, at the start of the text
\* or of a line, nothing asked of what follows the bracket
MatchStarts(template_str) ==
    {i \in 1..(Len(template_str) - 2) :
        /\ i = 1 \/ template_str[i - 1] = NL
        /\ template_str[i] = "["
        /\ template_str[i + 1] \in PatternNames
        /\ template_str[i + 2] = "]"}

\* the value stored for a section
SectionValue(section_name, content) ==
    IF section_name = "scripts"
    THEN IF content # <<>> THEN SplitLines(content) ELSE <<>>
    ELSE content

\* `for i, match in enumerate(matches)` over the matches still to come
RECURSIVE ParseMatches(_, _, _)
ParseMatches(template_str, starts, sections) ==
    IF starts = {} THEN sections
    ELSE LET match == Min(starts)
             rest == starts \ {match}
             section_name == Lower(template_str[match + 1])
             start == match + 3
             end == IF rest # {} THEN Min(rest) ELSE Len(template_str) + 1
             content == StripWs(SubSeq(template_str, start, end - 1))
         IN  ParseMatches(template_str, rest,
                          PutSection(sections, section_name,
                                     SectionValue(section_name, content)))

parse_template(template_str) ==
    ParseMatches(template_str, MatchStarts(template_str), EmptySections)

(***************************************************************************)
(* Templates: what save_draft writes for a section map                     *)
(***************************************************************************)
Header(key) == <<"[", key, "]">>

\* the keys of the loop `for key in [...]`
WrittenKeys ==
    <<"Introduction", "Testing", "Documentation", "conclusion-pass", "conclusion-fail">>

RECURSIVE WriteKeys(_, _)
WriteKeys(sections, i) ==
    IF i > Len(WrittenKeys) THEN <<>>
    ELSE Header(WrittenKeys[i]) \o <<NL>>
         \o GetSection(sections, Lower(WrittenKeys[i]), <<>>) \o <<NL, NL>>
         \o WriteKeys(sections, i + 1)

\* template_content of save_draft, stripped as it is written
SerializeSections(sections) ==
    LET scripts == GetSection(sections, "scripts", <<>>)
    IN  StripWs(WriteKeys(sections, 1)
                \o IF scripts # <<>>
                   THEN Header("Scripts") \o <<NL>> \o JoinLines(scripts) \o <<NL>>
                   ELSE <<>>)

(***************************************************************************)
(* Templates: specification of the text functions.  A text is drawn, parsed *)
(* and written back, or a section map is drawn, written and parsed.         *)
(***************************************************************************)
\* most lines of a drawn text, most keys of a drawn section map
MaxLines == 3
MaxKeys == 2

\* the pieces a text is made of, one to a line: blank, plain, two lines with
\* a blank line between, recognized tags, tags in another case, an
\* unrecognized bracket, a tag with text after it, an indented tag
TemplateLines ==
    {<<>>, <<"a">>, <<" ", "a">>, <<"a", NL, NL, "a">>,
     Header("Introduction"), Header("Testing"), Header("Scripts"), Header("conclusion-fail"),
     Header("TESTING"), Header("introduction"), Header("Other"),
     Header("Testing") \o <<" ", "a">>, <<" ">> \o Header("Testing")}

Texts == {JoinLines(lines) : lines \in UNION {[1..k -> TemplateLines] : k \in 0..MaxLines}}

SectionKeys == {Lower(section_names[k]) : k \in 1..Len(section_names)}

\* what a section of a drawn map may hold
Contents ==
    {<<>>, <<"a">>, <<"a", NL>>, <<"a", NL>> \o Header("Testing") \o <<NL, "a">>}
ScriptLists == {<<>>, <<<<"a">>>>, <<<<"a">>, <<"a">>>>}

\* a map over keys: a content for each key but scripts, a list for scripts
MapsOver(keys) ==
    {[k \in keys |-> IF k = "scripts" THEN scripts ELSE texts[k]] :
        texts \in [keys \ {"scripts"} -> Contents], scripts \in ScriptLists}

SectionMaps ==
    UNION {MapsOver(keys) : keys \in {K \in SUBSET SectionKeys : Cardinality(K) <= MaxKeys}}

(***************************************************************************)
(* Templates: the three writers, from the posted data on                   *)
(***************************************************************************)
\* the sections a new file starts from
DefaultSections ==
    [k \in SectionKeys |-> <<>>]

\* save_draft and save_template: the posted fields go over the sections of the
\* existing file; of the two conclusions only the one of conclusion_type
UpdateSections(sections, data) ==
    LET conclusion_key == IF data.conclusion_type = "pass"
                          THEN "conclusion-pass" ELSE "conclusion-fail"
        s1 == PutSection(sections, "introduction", data.introduction)
        s2 == PutSection(s1, "testing", data.testing_methodology)
        s3 == PutSection(s2, "documentation", data.documentation)
        s4 == PutSection(s3, conclusion_key, data.conclusion)
    IN  PutSection(s4, "scripts", data.scripts)

\* what save_draft writes to the draft file
DraftContent(sections, draft_data) == SerializeSections(UpdateSections(sections, draft_data))

\* what save_template writes to the template file
TemplateContent(sections, template_data) ==
    SerializeSections(UpdateSections(sections, template_data))

\* a block of the save_template route: the tag, the content, a blank line
RouteBlock(key, content) == Header(key) \o <<NL>> \o content \o <<NL, NL>>

\* what the save_template route writes: template_content as it stands
RouteContent(data) ==
    Header("Introduction") \o <<NL>> \o data.introduction \o <<NL, NL, NL>>
    \o RouteBlock("Testing", data.testing_methodology)
    \o (IF StripWs(data.documentation) # <<>>
        THEN RouteBlock("Documentation", data.documentation) ELSE <<>>)
    \o (IF data.scripts # <<>>
        THEN RouteBlock("Scripts", JoinLines(data.scripts)) ELSE <<>>)
    \o (IF StripWs(data.conclusion_pass) # <<>>
        THEN RouteBlock("conclusion-pass", data.conclusion_pass) ELSE <<>>)
    \o (IF StripWs(data.conclusion_fail) # <<>>
        THEN RouteBlock("conclusion-fail", data.conclusion_fail) ELSE <<>>)
    \o (IF data.conclusion # <<>> /\ data.conclusion_pass = <<>> /\ data.conclusion_fail = <<>>
        THEN RouteBlock(IF data.conclusion_type = "pass"
                        THEN "conclusion-pass" ELSE "conclusion-fail",
                        data.conclusion)
        ELSE <<>>)

\* the posted data drawn: plain contents without brackets
PlainContents == {<<>>, <<"a">>}
PostedData ==
    {[NoData EXCEPT !.introduction = <<"a">>, !.testing_methodology = <<"a">>,
                    !.documentation = documentation, !.scripts = scripts,
                    !.conclusion_pass = conclusion_pass, !.conclusion = conclusion,
                    !.conclusion_type = conclusion_type] :
        documentation \in PlainContents, scripts \in ScriptLists,
        conclusion_pass \in PlainContents, conclusion \in PlainContents,
        conclusion_type \in {"pass", "fail"}}

\* save_draft where no draft file exists yet
WriteDraft ==
    /\ tpl.op = "data"
    /\ tpl' = [tpl EXCEPT !.op = "save_draft",
                          !.written = DraftContent(DefaultSections, tpl.data)]
    /\ UNCHANGED <<cacheVars, token_file, attachVars, draftVars>>

\* save_template where no template file exists yet
WriteTemplate ==
    /\ tpl.op = "data"
    /\ tpl' = [tpl EXCEPT !.op = "save_template",
                          !.written = TemplateContent(DefaultSections, tpl.data)]
    /\ UNCHANGED <<cacheVars, token_file, attachVars, draftVars>>

save_template_route ==
    /\ tpl.op = "data"
    /\ tpl' = [tpl EXCEPT !.op = "save_template_route", !.written = RouteContent(tpl.data)]
    /\ UNCHANGED <<cacheVars, token_file, attachVars, draftVars>>

\* parse_template(template_str) of the drawn text
ParseText ==
    /\ tpl.op = "text"
    /\ tpl' = [tpl EXCEPT !.op = "parse_template", !.sections = parse_template(tpl.text)]
    /\ UNCHANGED <<cacheVars, token_file, attachVars, draftVars>>

\* the sections just parsed are written as save_draft writes them, and the
\* file is read and parsed as load_task_template does
SaveAndReload ==
    /\ tpl.op = "parse_template"
    /\ LET template_content == SerializeSections(tpl.sections)
       IN  tpl' = [tpl EXCEPT !.op = "reload", !.written = template_content,
                              !.reparsed = parse_template(template_content)]
    /\ UNCHANGED <<cacheVars, token_file, attachVars, draftVars>>

\* the drawn section map is written and the file parsed
SerializeMap ==
    /\ tpl.op = "map"
    /\ LET template_content == SerializeSections(tpl.sections)
       IN  tpl' = [tpl EXCEPT !.op = "serialize", !.written = template_content,
                              !.reparsed = parse_template(template_content)]
    /\ UNCHANGED <<cacheVars, token_file, attachVars, draftVars>>

\* nothing but the template functions runs: the cache stays as constructed
CacheIdle ==
    /\ tasks_json = FileMissing
    /\ token_file = [kind |-> "missing", text |-> <<>>]
    /\ _cached_missions = None
    /\ _has_loaded_initial = FALSE
    /\ _last_fetch_time = "zero"
    /\ calls = 0
    /\ last_list = None
    /\ call = NoCall
    /\ ret = NoReturn

TemplateInit ==
    /\ CacheIdle
    /\ AttachIdle
    /\ workdir = NoFolder /\ tfiles = NoTemplateFiles /\ dreq = NoDraftCall
    /\ saved = NothingSaved
    /\ catq = NoCategoryCall
    /\ procs = <<>> /\ events = <<>>
    /\ \/ \E template_str \in Texts :
             tpl = [NoTemplate EXCEPT !.op = "text", !.text = template_str]
       \/ \E sections \in SectionMaps :
             tpl = [NoTemplate EXCEPT !.op = "map", !.sections = sections]
       \/ \E data \in PostedData :
             tpl = [NoTemplate EXCEPT !.op = "data", !.data = data]

TemplateNext ==
    \/ ParseText
    \/ SaveAndReload
    \/ SerializeMap
    \/ WriteDraft
    \/ WriteTemplate
    \/ save_template_route

TemplateSpec == TemplateInit /\ [][TemplateNext]_vars

(***************************************************************************)
(* Drafts: names.  A title, a mission id and a file name (without .txt)    *)
(* are sequences of characters.                                            *)
(***************************************************************************)
\* str.lower() of a character
LowerChar(c) ==
    CASE c = "M" -> "m"
      [] c = "R" -> "r"
      [] c = "H" -> "h"
      [] c = "W" -> "w"
      [] c = "E" -> "e"
      [] c = "B" -> "b"
      [] c = "S" -> "s"
      [] c = "V" -> "v"
      [] OTHER -> c

\* c.isalnum()
IsAlnum(c) == c \in {"M", "R", "m", "y", "r", "1", "2", "3"}

\* save_draft: mission_title.lower().replace(' ', '_').replace('/', '_'), then
\* the characters that are alphanumeric or one of _ and -
SafeDraftName(mission_title) ==
    LET lowered == [i \in 1..Len(mission_title) |->
                       IF mission_title[i] \in {" ", "/"} THEN "_"
                       ELSE LowerChar(mission_title[i])]
    IN  SelectSeq(lowered, LAMBDA c : IsAlnum(c) \/ c \in {"_", "-"})

\* load_task_template: task['title'].replace(' ', '_').replace('/', '_').lower()
SafeTitle(title) ==
    [i \in 1..Len(title) |->
        IF title[i] \in {" ", "/"} THEN "_" ELSE LowerChar(title[i])]

\* the missions get_all_missions() lists: id, title, assetTypes
D1 == <<"1">>
D2 == <<"2">>
D3 == <<"3">>
DraftMissions ==
    <<[id |-> D1, title |-> <<"M", "y", " ", "R", "!">>, assetTypes |-> <<<<"H", "o", "s", "t">>>>],
      [id |-> D2, title |-> <<"m", "y", " ", "r">>, assetTypes |-> <<>>]>>

\* asset_type.lower()
LowerText(text) == [i \in 1..Len(text) |-> LowerChar(text[i])]

\* `sub in text`
Contains(text, sub) ==
    \E i \in 0..(Len(text) - Len(sub)) : SubSeq(text, i + 1, i + Len(sub)) = sub

\* determine_category with web tried before host
RECURSIVE determine_category_WebFirst(_)
determine_category_WebFirst(asset_types) ==
    IF asset_types = <<>> THEN "web"
    ELSE LET asset_type == LowerText(Head(asset_types))
         IN  IF Contains(asset_type, <<"w", "e", "b">>) THEN "web"
             ELSE IF Contains(asset_type, <<"h", "o", "s", "t">>) THEN "host"
             ELSE IF Contains(asset_type, <<"m", "o", "b", "i", "l", "e">>) THEN "mobile"
             ELSE IF Contains(asset_type, <<"a", "p", "i">>) THEN "api"
             ELSE IF Contains(asset_type, <<"s", "v", "2", "m">>) THEN "sv2m"
             ELSE determine_category_WebFirst(Tail(asset_types))

\* template_utils.determine_category: the first asset type that names a
\* category decides
RECURSIVE determine_category(_)
determine_category(asset_types) ==
    IF asset_types = <<>> THEN "web"
    ELSE LET asset_type == LowerText(Head(asset_types))
         IN  IF Contains(asset_type, <<"h", "o", "s", "t">>) THEN "host"
             ELSE IF Contains(asset_type, <<"w", "e", "b">>) THEN "web"
             ELSE IF Contains(asset_type, <<"m", "o", "b", "i", "l", "e">>) THEN "mobile"
             ELSE IF Contains(asset_type, <<"a", "p", "i">>) THEN "api"
             ELSE IF Contains(asset_type, <<"s", "v", "2", "m">>) THEN "sv2m"
             ELSE determine_category(Tail(asset_types))

(***************************************************************************)
(* Drafts: save_draft                                                      *)
(***************************************************************************)
HasTxt(folder, name) == name \in DOMAIN folder.txt

\* d[key] = value of a dict carried as a function
PutKey(d, key, value) == [k \in DOMAIN d \cup {key} |-> IF k = key THEN value ELSE d[k]]

\* the folder as save_draft(working_folder, listing_codename, filename,
\* draft_data) leaves it
SaveDraft(folder, filename, mission_title, draft_data) ==
    LET draft_filename == IF mission_title # <<>> THEN SafeDraftName(mission_title)
                          ELSE filename
        mapping == IF folder.mapping # None THEN folder.mapping[1] ELSE <<>>
        mapped == PutKey(PutKey(mapping, filename, draft_filename), draft_filename, filename)
        sections == IF HasTxt(folder, draft_filename)
                    THEN parse_template(folder.txt[draft_filename])
                    ELSE DefaultSections
    IN  [mapping |-> Some(mapped),
         txt |-> PutKey(folder.txt, draft_filename, DraftContent(sections, draft_data))]

(***************************************************************************)
(* Drafts: load_task_template                                              *)
(***************************************************************************)
\* mission_helpers.find_draft_path: the mapped name, then the mission id
find_draft_path(folder, mission_id) ==
    LET draft_filename ==
            IF folder.mapping # None /\ mission_id \in DOMAIN folder.mapping[1]
            THEN folder.mapping[1][mission_id] ELSE mission_id
    IN  IF HasTxt(folder, draft_filename) THEN Some(draft_filename)
        ELSE IF HasTxt(folder, mission_id) THEN Some(mission_id)
        ELSE None

\* what the legacy {mission_id}.json and the template files hold
LegacySections ==
    [k \in SectionKeys |-> IF k = "introduction" THEN <<"j">> ELSE <<>>]
TemplateText == Header("Introduction") \o <<NL, "t">>

\* format_template_data: the sections of the result
FormatSections(sections) ==
    LET conclusion_type ==
            IF /\ GetSection(sections, "conclusion-fail", <<>>) # <<>>
               /\ GetSection(sections, "conclusion-pass", <<>>) = <<>>
            THEN "fail" ELSE "pass"
    IN  [introduction |-> GetSection(sections, "introduction", <<>>),
         testing_methodology |-> GetSection(sections, "testing", <<>>),
         documentation |-> GetSection(sections, "documentation", <<>>),
         scripts |-> GetSection(sections, "scripts", <<>>),
         conclusion_pass |-> GetSection(sections, "conclusion-pass", <<>>),
         conclusion_fail |-> GetSection(sections, "conclusion-fail", <<>>),
         conclusion_type |-> conclusion_type,
         conclusion |-> GetSection(sections, IF conclusion_type = "pass"
                                             THEN "conclusion-pass" ELSE "conclusion-fail",
                                   <<>>)]

Loaded(source, name, sections, category, is_draft) ==
    [source |-> source, category |-> category, sections |-> FormatSections(sections),
     name |-> name, is_draft |-> is_draft, needs_template_selection |-> FALSE,
     show_default_templates |-> FALSE]

\* default_template_structure
default_template_structure(category, needs_template_selection, show_default_templates) ==
    [source |-> "empty", category |-> category, sections |-> FormatSections(EmptySections),
     name |-> <<>>, is_draft |-> FALSE, needs_template_selection |-> needs_template_selection,
     show_default_templates |-> show_default_templates]


\* `next((task for task in missions if task.get('id') == mission_id), None)`
FindTask(missions, mission_id) ==
    LET found == {k \in 1..Len(missions) : missions[k].id = mission_id}
    IN  IF found = {} THEN None ELSE Some(missions[Min(found)])

\* load_task_template from the mission list on
LoadTemplate(folder, templates, missions, mission_id, category) ==
    LET task == FindTask(missions, mission_id)
    IN  IF task = None
        THEN default_template_structure(IF category # None THEN category[1] ELSE "web",
                                        TRUE, FALSE)
        ELSE LET safe_title == SafeTitle(task[1].title)
                 resolved == IF category # None THEN category[1]
                             ELSE IF task[1].assetTypes # <<>>
                             THEN determine_category(task[1].assetTypes) ELSE "web"
             IN  IF HasTxt(folder, safe_title)
                 THEN Loaded("mission_template", safe_title,
                             parse_template(folder.txt[safe_title]), resolved, FALSE)
                 ELSE IF "user_category" \in templates.dirs
                 THEN Loaded("user_category", safe_title, parse_template(TemplateText),
                             resolved, FALSE)
                 ELSE IF "app_category" \in templates.dirs
                 THEN Loaded("app_category", safe_title, parse_template(TemplateText),
                             resolved, FALSE)
                 ELSE IF resolved = "sv2m"
                 THEN IF "user_sv2m" \in templates.dirs
                      THEN Loaded("user_sv2m", <<>>, parse_template(TemplateText), "sv2m", FALSE)
                      ELSE IF "app_sv2m" \in templates.dirs
                      THEN Loaded("app_sv2m", <<>>, parse_template(TemplateText), "sv2m", FALSE)
                      ELSE default_template_structure("sv2m", FALSE, FALSE)
                 ELSE default_template_structure(resolved, TRUE, TRUE)

\* LoadDraft with the legacy JSON draft tried before the text draft
LoadDraft_JsonFirst(folder, templates, mission_id, category) ==
    LET draft_path == find_draft_path(folder, mission_id)
        hint == IF category # None THEN category[1] ELSE "web"
    IN  IF mission_id \in templates.legacy
        THEN Some(Loaded("json", mission_id, LegacySections, hint, TRUE))
        ELSE IF draft_path # None
        THEN Some(Loaded("draft", draft_path[1], parse_template(folder.txt[draft_path[1]]),
                         hint, TRUE))
        ELSE None

\* the drafts come first and are answered without the mission list
LoadDraft(folder, templates, mission_id, category) ==
    LET draft_path == find_draft_path(folder, mission_id)
        hint == IF category # None THEN category[1] ELSE "web"
    IN  IF draft_path # None
        THEN Some(Loaded("draft", draft_path[1], parse_template(folder.txt[draft_path[1]]),
                         hint, TRUE))
        ELSE IF mission_id \in templates.legacy
        THEN Some(Loaded("json", mission_id, LegacySections, hint, TRUE))
        ELSE None

(***************************************************************************)
(* Drafts: specification                                                   *)
(***************************************************************************)
\* most save_draft calls in one behaviour
MaxSaves == 2

DraftIds == {D1, D2}
DraftTitles == {<<>>} \cup {DraftMissions[k].title : k \in 1..Len(DraftMissions)}
DraftData ==
    {[NoData EXCEPT !.introduction = text, !.testing_methodology = <<"a">>,
                    !.documentation = <<"a">>, !.conclusion = text,
                    !.conclusion_type = conclusion_type] :
        text \in {<<"a">>, <<"b">>}, conclusion_type \in {"pass", "fail"}}
CategoryHints == {None, Some("sv2m")}

\* the template files present from the start
TemplateFileSets ==
    {[legacy |-> {}, dirs |-> {}],
     [legacy |-> {D1}, dirs |-> {"user_category", "app_category"}],
     [legacy |-> {}, dirs |-> {"app_category", "user_sv2m"}],
     [legacy |-> {}, dirs |-> {"user_sv2m", "app_sv2m"}],
     [legacy |-> {D2}, dirs |-> {"app_sv2m"}]}

save_draft ==
    \E filename \in DraftIds, mission_title \in DraftTitles, draft_data \in DraftData :
        /\ saved.count < MaxSaves
        /\ workdir' = SaveDraft(workdir, filename, mission_title, draft_data)
        /\ dreq' = [NoDraftCall EXCEPT !.op = "save_draft", !.mission_id = filename,
                                       !.data = draft_data, !.mission_title = mission_title,
                                       !.before = workdir]
        /\ saved' = [count |-> saved.count + 1,
                     last |-> PutKey(saved.last, filename, draft_data)]
        /\ UNCHANGED <<cacheVars, token_file, attachVars, templVars, tfiles, catq, procs,
                       events>>

load_task_template ==
    \E mission_id \in DraftIds \cup {D3}, category \in CategoryHints :
        LET draft == LoadDraft(workdir, tfiles, mission_id, category)
            asked == [NoDraftCall EXCEPT !.op = "load_task_template",
                                         !.mission_id = mission_id,
                                         !.category = category, !.before = workdir]
        IN  /\ UNCHANGED <<workdir, tfiles, saved, catq, procs, events, attachVars, templVars>>
            /\ IF draft # None
               THEN /\ dreq' = [asked EXCEPT !.result = draft[1]]
                    /\ UNCHANGED <<cacheVars, token_file>>
               ELSE /\ dreq' = [asked EXCEPT !.result =
                                   LoadTemplate(workdir, tfiles, MissionsNow.missions,
                                                mission_id, category)]
                    /\ MissionsFetched

DraftInit ==
    /\ AttachIdle
    /\ tpl = NoTemplate
    /\ workdir = NoFolder
    /\ tfiles \in TemplateFileSets
    /\ dreq = NoDraftCall
    /\ saved = NothingSaved
    /\ catq = NoCategoryCall
    /\ procs = <<>> /\ events = <<>>
    /\ token_file = [kind |-> "missing", text |-> <<>>]
    /\ LET fresh == [disk |-> JsonFile(DraftMissions), token |-> token_file,
                     cached |-> None, loaded |-> FALSE, last_fetch |-> "zero"]
           r == GetAllMissions(fresh, FALSE, <<NetworkError>>)
       IN  /\ tasks_json = r.disk
           /\ _cached_missions = r.cached
           /\ _has_loaded_initial = r.loaded
           /\ _last_fetch_time = r.last_fetch
           /\ calls = 1
           /\ last_list = Some(r.missions)
           /\ call = [op |-> "get_all_missions", force_refresh |-> FALSE,
                      entry |-> fresh, last |-> None, tier |-> r.tier,
                      gets |-> r.gets, exit |-> r.exit, script |-> <<>>]
           /\ ret = [missions |-> r.missions, status |-> r.status, raised |-> r.raised]

DraftNext == save_draft \/ load_task_template

DraftSpec == DraftInit /\ [][DraftNext]_vars

(***************************************************************************)
(* Category resolver: specification.  The asset types are drawn at the     *)
(* start, the one action is the call.                                      *)
(***************************************************************************)
\* most asset types in one list
MaxTags == 2

\* free-text asset types: a keyword in either case, inside a longer word, two
\* keywords in one tag, none
AssetTypes ==
    {<<"H", "o", "s", "t">>, <<"W", "E", "B">>, <<"w", "e", "b", "h", "o", "s", "t">>,
     <<"M", "o", "b", "i", "l", "e">>, <<"x", "a", "p", "i", "x">>,
     <<"S", "V", "2", "M">>, <<"o", "t", "h", "e", "r">>, <<>>}

AssetTypeLists == UNION {[1..k -> AssetTypes] : k \in 0..MaxTags}

CategoryCall ==
    /\ catq.op = "asset_types"
    /\ catq' = [catq EXCEPT !.op = "determine_category",
                            !.result = determine_category(catq.asset_types)]
    /\ UNCHANGED <<cacheVars, token_file, attachVars, templVars, workdir, tfiles, dreq, saved,
                   procs, events>>

CategoryInit ==
    /\ CacheIdle
    /\ AttachIdle
    /\ tpl = NoTemplate
    /\ workdir = NoFolder /\ tfiles = NoTemplateFiles /\ dreq = NoDraftCall
    /\ saved = NothingSaved
    /\ procs = <<>> /\ events = <<>>
    /\ \E asset_types \in AssetTypeLists :
          catq = [NoCategoryCall EXCEPT !.op = "asset_types", !.asset_types = asset_types]

CategoryNext == CategoryCall

CategorySpec == CategoryInit /\ [][CategoryNext]_vars

(***************************************************************************)
(* Drafts: save_draft step by step.  The server (app.run, threaded) runs   *)
(* each request in a thread of its own and save_draft takes no lock, so    *)
(* the file accesses of two requests interleave freely.                    *)
(***************************************************************************)
Requests == {"r1", "r2"}

\* the mission each request saves for
RequestMission == [r \in Requests |-> IF r = "r1" THEN D1 ELSE D2]

RaceData == {[NoData EXCEPT !.introduction = <<"a">>],
             [NoData EXCEPT !.introduction = <<"b">>, !.conclusion_type = "fail"]}

DraftFilename(filename, mission_title) ==
    IF mission_title # <<>> THEN SafeDraftName(mission_title) ELSE filename

\* MappingToWrite where the entries are set over the file's content at the
\* time of the write
MappingToWrite_Reread(mapping, on_disk, filename, draft_filename) ==
    PutKey(PutKey(on_disk, filename, draft_filename), draft_filename, filename)

\* the two entries of this save, set over the mapping this request read
MappingToWrite(mapping, on_disk, filename, draft_filename) ==
    PutKey(PutKey(mapping, filename, draft_filename), draft_filename, filename)

MappingOnDisk == IF workdir.mapping # None THEN workdir.mapping[1] ELSE <<>>

Step(r, pc, what) ==
    /\ procs[r].pc = pc
    /\ events' = Append(events, [request |-> r, step |-> what])
    /\ UNCHANGED <<cacheVars, token_file, attachVars, templVars, tfiles, dreq, saved, catq>>

\* `if os.path.exists(metadata_file): mapping = json.load(f)`
SaveReadsMapping ==
    \E r \in Requests :
        /\ Step(r, "called", "read_mapping")
        /\ procs' = [procs EXCEPT ![r].pc = "mapping_read", ![r].mapping = MappingOnDisk]
        /\ UNCHANGED workdir

\* the two entries are set and the mapping is dumped
SaveWritesMapping ==
    \E r \in Requests :
        /\ Step(r, "mapping_read", "write_mapping")
        /\ procs' = [procs EXCEPT ![r].pc = "mapping_written"]
        /\ workdir' = [workdir EXCEPT !.mapping =
                          Some(MappingToWrite(procs[r].mapping, MappingOnDisk,
                                              procs[r].filename, procs[r].draft_filename))]

\* `if os.path.exists(filepath): sections = parse_template(existing_content)`
SaveReadsDraft ==
    \E r \in Requests :
        /\ Step(r, "mapping_written", "read_draft")
        /\ procs' = [procs EXCEPT
                        ![r].pc = "draft_read",
                        ![r].sections =
                            IF HasTxt(workdir, procs[r].draft_filename)
                            THEN parse_template(workdir.txt[procs[r].draft_filename])
                            ELSE DefaultSections]
        /\ UNCHANGED workdir

\* the sections are updated from draft_data and written to the draft file
SaveWritesDraft ==
    \E r \in Requests :
        /\ Step(r, "draft_read", "write_draft")
        /\ procs' = [procs EXCEPT ![r].pc = "done"]
        /\ workdir' = [workdir EXCEPT !.txt =
                          PutKey(workdir.txt, procs[r].draft_filename,
                                 DraftContent(procs[r].sections, procs[r].draft_data))]

\* two save_draft requests for two missions of one listing have been received;
\* the listing's folder is still empty
RaceInit ==
    /\ CacheIdle
    /\ AttachIdle
    /\ tpl = NoTemplate
    /\ workdir = NoFolder /\ tfiles = NoTemplateFiles /\ dreq = NoDraftCall
    /\ saved = NothingSaved
    /\ catq = NoCategoryCall
    /\ events = <<>>
    /\ \E titles \in [Requests -> DraftTitles], data \in [Requests -> RaceData] :
          procs = [r \in Requests |->
                      [pc |-> "called", filename |-> RequestMission[r],
                       draft_filename |-> DraftFilename(RequestMission[r], titles[r]),
                       draft_data |-> data[r], mapping |-> <<>>,
                       sections |-> DefaultSections]]

RaceNext == SaveReadsMapping \/ SaveWritesMapping \/ SaveReadsDraft \/ SaveWritesDraft

RaceSpec == RaceInit /\ [][RaceNext]_vars

(***************************************************************************)
(* Templates: properties                                                   *)
(***************************************************************************)
\* the non-empty lines of a script list
RECURSIVE NonEmptyLines(_)
NonEmptyLines(lines) ==
    IF lines = <<>> THEN <<>>
    ELSE (IF StripWs(Head(lines)) = <<>> THEN <<>> ELSE <<Head(lines)>>)
         \o NonEmptyLines(Tail(lines))

\* the content of key in a section map, Scripts as its non-empty lines
ContentOf(sections, key) ==
    IF key = "scripts" THEN NonEmptyLines(GetSection(sections, key, <<>>))
    ELSE GetSection(sections, key, <<>>)

\* every bracket of the text opens a recognized tag
UsesOnlyRecognizedTags(text) ==
    \A i \in 1..Len(text) :
        /\ text[i] = "[" => /\ i + 2 <= Len(text)
                            /\ text[i + 1] \in PatternNames
                            /\ text[i + 2] = "]"
        /\ text[i] = "]" => i > 2 /\ text[i - 2] = "["

\* C13: template round trip: for a section map built from the six recognized
\* keys, parsing the serialized text gives back the content of every key
\* present (Scripts as the list of its non-empty lines); and for a text x that
\* uses only recognized tags, parse(serialize(parse(x))) has the content of
\* parse(x).
C13_RoundTrip ==
    /\ tpl.op = "serialize"
          => \A key \in DOMAIN tpl.sections :
                ContentOf(tpl.reparsed, key) = ContentOf(tpl.sections, key)
    /\ (tpl.op = "reload" /\ UsesOnlyRecognizedTags(tpl.text))
          => \A key \in DOMAIN tpl.sections :
                ContentOf(tpl.reparsed, key) = ContentOf(tpl.sections, key)

\* where a line starts with a bracketed section name written in any case
TagStartsAnyCase(text) ==
    {i \in 1..(Len(text) - 2) :
        /\ i = 1 \/ text[i - 1] = NL
        /\ text[i] = "["
        /\ Lower(text[i + 1]) \in SectionKeys
        /\ text[i + 2] = "]"}

Parsed == tpl.op = "parse_template"

\* C14: parse_template recognizes the six section tags whatever their case: a
\* tag line such as [introduction], [TESTING] or [Conclusion-Pass] starts
\* the section, stored under the lowercase key.
C14_TagsAnyCase ==
    Parsed => \A i \in TagStartsAnyCase(tpl.text) : Lower(tpl.text[i + 1]) \in DOMAIN tpl.sections

\* C15: parse_template gives the Scripts section as the sequence of its
\* non-empty lines (no element is empty or blank, also with blank lines
\* between the scripts) and every other section as one trimmed string.
C15_ScriptsNonEmptyLines ==
    Parsed
        => \A key \in DOMAIN tpl.sections :
              IF key = "scripts"
              THEN \A k \in 1..Len(tpl.sections[key]) : StripWs(tpl.sections[key][k]) # <<>>
              ELSE tpl.sections[key] = StripWs(tpl.sections[key])

\* the lines that are exactly [Tag] with Tag one of the six names
ExactTagLines(text) ==
    {i \in 1..(Len(text) - 2) :
        /\ i = 1 \/ text[i - 1] = NL
        /\ text[i] = "["
        /\ text[i + 1] \in PatternNames
        /\ text[i + 2] = "]"
        /\ i + 2 = Len(text) \/ text[i + 3] = NL}

\* the trimmed text between the tag line at i and the next exact tag line
BetweenTagLines(text, i) ==
    LET later == {j \in ExactTagLines(text) : j > i}
    IN  StripWs(SubSeq(text, i + 3, IF later = {} THEN Len(text) ELSE Min(later) - 1))

\* C16: parse_template takes as a section boundary only a line of the exact
\* form [Tag], Tag one of the six names; a section's content is the trimmed
\* text between its tag line and the next such line or the end, and any
\* other bracket text (an unrecognized name, a tag followed by text on its
\* line) is no boundary and stays in the content of the section before it.
C16_ExactTagLinesOnly ==
    Parsed
        => /\ DOMAIN tpl.sections = {Lower(tpl.text[i + 1]) : i \in ExactTagLines(tpl.text)}
           /\ \A i \in ExactTagLines(tpl.text) :
                 LET key == Lower(tpl.text[i + 1])
                     last == Max({j \in ExactTagLines(tpl.text) : Lower(tpl.text[j + 1]) = key})
                 IN  i = last =>
                        ContentOf(tpl.sections, key)
                            = ContentOf([k \in {key} |->
                                            SectionValue(key, BetweenTagLines(tpl.text, i))],
                                        key)

\* the tags of a written text, in their order
RECURSIVE TagsFrom(_, _)
TagsFrom(text, starts) ==
    IF starts = {} THEN <<>>
    ELSE <<text[Min(starts) + 1]>> \o TagsFrom(text, starts \ {Min(starts)})

TagsOf(text) == TagsFrom(text, MatchStarts(text))

\* the place of a tag in the order of writing
TagRank(tag) ==
    CHOOSE k \in 1..6 :
        <<"Introduction", "Testing", "Documentation", "conclusion-pass", "conclusion-fail",
          "Scripts">>[k] = tag

Written == tpl.op \in {"save_draft", "save_template", "save_template_route"}

\* C17: every template or draft file written has its sections in the order
\* Introduction, Testing, Documentation, conclusion-pass, conclusion-fail,
\* then Scripts only when the script list is not empty, and no trailing
\* whitespace; so for save_draft, save_template and the save_template route.
C17_FixedOrderStripped ==
    Written
        => LET tags == TagsOf(tpl.written)
           IN  /\ \A j, k \in 1..Len(tags) : j < k => TagRank(tags[j]) < TagRank(tags[k])
               /\ (\E k \in 1..Len(tags) : tags[k] = "Scripts") <=> tpl.data.scripts # <<>>
               /\ tpl.written = RStripWs(tpl.written)

(***************************************************************************)
(* Attachments: properties                                                 *)
(***************************************************************************)
UploadOps == {"upload_attachments", "upload_single_attachment"}
LookupOps == {"download_attachment", "delete_synack_attachment", "upload_to_api"}

\* the request was an upload whose batch reached the remote multi-upload call
UploadAnswered == req.op \in UploadOps /\ req.api.called

\* nothing of the batch's i-th local item is left in the directory
NothingLeftOf(u) == u.filename \notin files /\ u.filename \notin DOMAIN sidecars

\* C8: when the remote multi-upload call of a batch fails, no file and no
\* sidecar created for that batch is left in the mission's attachment
\* directory when the request returns, whichever of the two upload endpoints
\* took the batch and whatever its size.
C8_RollbackBothEndpoints ==
    (UploadAnswered /\ ~req.api.success)
        => \A i \in 1..Len(req.uploaded_files) : NothingLeftOf(req.uploaded_files[i])

\* the files of dir that were stored under a local UUID and promoted since:
\* named {synack_id}_{original_filename}, the sidecar marked uploaded
Promoted(dir) ==
    {f \in dir.files :
        /\ HasSidecar(dir, f)
        /\ dir.sidecars[f].uploaded_to_api
        /\ dir.sidecars[f].synack_id # None
        /\ dir.sidecars[f].id \in Uuids
        /\ f = Prefixed(dir.sidecars[f].synack_id[1], dir.sidecars[f].original_filename)}

\* C9: once an attachment stored under local UUID abc has been promoted to
\* remote id XYZ, each of download_attachment, delete_synack_attachment and
\* upload_to_api finds it when asked for XYZ, and none finds it when asked for
\* abc.
C9_LookupAfterPromotion ==
    (req.op \in LookupOps /\ req.attachment_id # <<>>)
        => \A f \in Promoted(req.before) :
              /\ req.attachment_id = req.before.sidecars[f].synack_id[1]
                    => f \in req.candidates
              /\ req.attachment_id = req.before.sidecars[f].id
                    => f \notin req.candidates

\* the positions at which the remote's answer pairs an id with a batch file
PairedWithId ==
    {i \in 1..Len(req.uploaded_files) :
        i <= Len(req.api.items) /\ req.api.items[i] # NoId}

\* file and sidecar of the local item u carry the prefix {synack_id}_ in place
\* of the UUID, and the sidecar says so
PromotedTo(u, synack_id) ==
    LET new_filename == Prefixed(synack_id, u.original_filename)
    IN  /\ new_filename \in files
        /\ new_filename \in DOMAIN sidecars
        /\ sidecars[new_filename].uploaded_to_api
        /\ sidecars[new_filename].synack_id = Some(synack_id)
        /\ sidecars[new_filename].filename = new_filename

\* C10: when the remote multi-upload of a batch succeeds, then for each remote
\* id of the answer, matched to the batch's files by position, after the
\* request the file and its sidecar are named with the prefix {remote_id}_ in
\* place of the UUID prefix, the sidecar records uploaded_to_api = true and
\* synack_id = remote_id, and no file or sidecar with the old UUID prefix is
\* left for that attachment.
C10_PromotedOnSuccess ==
    (UploadAnswered /\ req.api.success)
        => \A i \in PairedWithId :
              /\ PromotedTo(req.uploaded_files[i], req.api.items[i][1])
              /\ NothingLeftOf(req.uploaded_files[i])

\* a batch of two files came back with two different remote ids
C10_Witness ==
    /\ UploadAnswered /\ req.api.success
    /\ Len(req.uploaded_files) = 2
    /\ PairedWithId = {1, 2}
    /\ req.api.items[1] # req.api.items[2]

\* the sidecar of filename in dir says the file was uploaded to the remote
SaysUploaded(dir, filename) == HasSidecar(dir, filename) /\ dir.sidecars[filename].uploaded_to_api

\* the positions of the log at which the event happened to the file
LoggedAt(event, f) ==
    {k \in 1..Len(req.log) : req.log[k] = [event |-> event, file |-> f]}

DeleteAnswered == req.op = "delete_synack_attachment" /\ req.candidates # {}

\* C11: delete_synack_attachment processes every local file matching the id:
\* the remote DELETE is attempted for a file whose sidecar says it was
\* uploaded, before the file's local removal, and for no other file; whether
\* the remote delete succeeds or fails, file and sidecar are removed locally
\* and the request answers success = true.
C11_DeleteEveryMatch ==
    DeleteAnswered
        => /\ req.success /\ req.http = 200
           /\ req.candidates
                 = {f \in Listed(req.before) :
                        MatchesBySynackId(req.before, f, req.attachment_id)}
           /\ \A f \in req.candidates :
                 /\ f \notin files /\ f \notin DOMAIN sidecars
                 /\ Cardinality(LoggedAt("os.remove", f)) = 1
                 /\ IF SaysUploaded(req.before, f)
                    THEN /\ LoggedAt("delete_evidence_from_api", f) # {}
                         /\ \A k \in LoggedAt("delete_evidence_from_api", f) :
                               \A r \in LoggedAt("os.remove", f) : k < r
                    ELSE LoggedAt("delete_evidence_from_api", f) = {}

\* a file its sidecar says uploaded was deleted while no remote delete succeeded
C11_Witness ==
    /\ DeleteAnswered
    /\ req.api.called /\ ~req.api.success
    /\ \E f \in req.candidates : SaysUploaded(req.before, f)

\* the id the list gives a local file: the synack_id where the sidecar knows
\* one, else the local id
ListedId(dir, f) ==
    IF HasSidecar(dir, f)
    THEN IF dir.sidecars[f].synack_id # None
         THEN dir.sidecars[f].synack_id[1] ELSE dir.sidecars[f].id
    ELSE SplitExtRoot(f)

ListAnswered ==
    /\ req.op = "mission_attachments"
    /\ get_mission_by_id(MissionsNow.missions, req.mission_id) # None

AttachmentIds == {req.attachments[k].id : k \in 1..Len(req.attachments)}

\* C12: the attachment list of a mission has one entry for every local
\* attachment file (id = synack_id if known, else the local id), one entry
\* for each attachment the remote reports under an id not present locally,
\* no id twice, and is ordered by upload timestamp, newest first.
C12_ListMergesLocalAndRemote ==
    ListAnswered
        => /\ \A f \in Listed(req.before) :
                 \E k \in 1..Len(req.attachments) :
                     /\ req.attachments[k].filename = f
                     /\ req.attachments[k].id = ListedId(req.before, f)
           /\ \A i \in 1..Len(req.listing) :
                 req.listing[i].id # NoId => req.listing[i].id[1] \in AttachmentIds
           /\ Cardinality(AttachmentIds) = Len(req.attachments)
           /\ \A j, k \in 1..Len(req.attachments) :
                 j < k => req.attachments[j].uploaded_at >= req.attachments[k].uploaded_at

(***************************************************************************)
(* Drafts: properties                                                      *)
(***************************************************************************)
LoadAnswered == dreq.op = "load_task_template"

\* the mission the call is about, as the mission list has it
AskedTask == FindTask(DraftMissions, dreq.mission_id)

\* the category the call works with once the mission is known
AskedCategory ==
    IF dreq.category # None THEN dreq.category[1]
    ELSE IF AskedTask # None /\ AskedTask[1].assetTypes # <<>>
    THEN determine_category(AskedTask[1].assetTypes)
    ELSE "web"

\* the sources of the resolution order when the call is made, in that order;
\* a category template is named after the title of the mission
ResolutionSources ==
    LET folder == dreq.before
        is_sv2m == AskedCategory = "sv2m"
    IN  <<[source |-> "draft", listed |-> FALSE,
           there |-> find_draft_path(folder, dreq.mission_id) # None],
          [source |-> "json", listed |-> FALSE, there |-> dreq.mission_id \in tfiles.legacy],
          [source |-> "mission_template", listed |-> TRUE,
           there |-> AskedTask # None /\ HasTxt(folder, SafeTitle(AskedTask[1].title))],
          [source |-> "user_category", listed |-> TRUE,
           there |-> AskedTask # None /\ "user_category" \in tfiles.dirs],
          [source |-> "app_category", listed |-> TRUE,
           there |-> AskedTask # None /\ "app_category" \in tfiles.dirs],
          [source |-> "user_sv2m", listed |-> TRUE,
           there |-> is_sv2m /\ "user_sv2m" \in tfiles.dirs],
          [source |-> "app_sv2m", listed |-> TRUE,
           there |-> is_sv2m /\ "app_sv2m" \in tfiles.dirs]>>

ExistingSources == SelectSeq(ResolutionSources, LAMBDA s : s.there)

\* the sources the code gets to: past the drafts only for a mission of the
\* mission list
ReachedSources ==
    SelectSeq(ResolutionSources, LAMBDA s : s.there /\ (s.listed => AskedTask # None))

C19_LoadReturnsLastSaved ==
    (LoadAnswered /\ dreq.mission_id \in DOMAIN saved.last) =>
        LET draft_data == saved.last[dreq.mission_id]
            sections == dreq.result.sections
        IN  /\ dreq.result.source = "draft"
            /\ sections.introduction = draft_data.introduction
            /\ sections.testing_methodology = draft_data.testing_methodology
            /\ sections.documentation = draft_data.documentation
            /\ sections.scripts = draft_data.scripts
            /\ draft_data.conclusion =
                   IF draft_data.conclusion_type = "pass"
                   THEN sections.conclusion_pass ELSE sections.conclusion_fail

\* C20: on every branch of load_task_template, the draft branches included,
\* the category of the answer is the hint when one is given, else the
\* category determine_category derives from the asset types of the mission,
\* else web.
C20_CategoryOnEveryBranch ==
    LoadAnswered => dreq.result.category = AskedCategory

\* C21: for a call whose category is sv2m, by the hint or by the asset types of
\* the mission, load_task_template never answers needs_template_selection or
\* show_default_templates, whether a template is found, the default sv2m.txt
\* is missing or the mission is not in the mission list.
C21_Sv2mNeverOffersSelection ==
    (LoadAnswered /\ AskedCategory = "sv2m") =>
        /\ ~dreq.result.needs_template_selection
        /\ ~dreq.result.show_default_templates

(***************************************************************************)
(* Category resolver: properties                                           *)
(***************************************************************************)
Categories == <<"host", "web", "mobile", "api", "sv2m">>
Keywords ==
    <<<<"h", "o", "s", "t">>, <<"w", "e", "b">>, <<"m", "o", "b", "i", "l", "e">>,
      <<"a", "p", "i">>, <<"s", "v", "2", "m">>>>

\* the keywords a tag contains, in either case
KeywordsIn(tag) == {k \in 1..Len(Keywords) : Contains(LowerText(tag), Keywords[k])}

\* the tags of the list that contain a keyword
MatchingTags(asset_types) == {i \in 1..Len(asset_types) : KeywordsIn(asset_types[i]) # {}}

CategoryAnswered == catq.op = "determine_category"

\* C22: determine_category returns one of host, web, mobile, api, sv2m: the
\* category of the first tag of the list that contains a keyword in either
\* case, the keywords tried in the order host, web, mobile, api, sv2m; web when
\* no tag matches or the list is empty; and with exactly one matching tag the
\* result is the same wherever that tag stands in the list.
C22_FirstMatchingTag ==
    CategoryAnswered =>
        LET asset_types == catq.asset_types
            matching == MatchingTags(asset_types)
        IN  /\ \E k \in 1..Len(Categories) : catq.result = Categories[k]
            /\ matching = {} => catq.result = "web"
            /\ matching # {} =>
                  catq.result = Categories[Min(KeywordsIn(asset_types[Min(matching)]))]
            /\ Cardinality(matching) = 1 =>
                  \A other \in AssetTypeLists :
                      (/\ Len(other) = Len(asset_types)
                       /\ Cardinality(MatchingTags(other)) = 1
                       /\ \E i \in matching, j \in MatchingTags(other) :
                             other[j] = asset_types[i])
                      => determine_category(other) = catq.result

\* a list whose first tag has no keyword and whose second holds web before
\* host: the answer is host
C22_Witness ==
    /\ CategoryAnswered
    /\ Len(catq.asset_types) = 2
    /\ MatchingTags(catq.asset_types) = {2}
    /\ KeywordsIn(catq.asset_types[2]) = {1, 2}
    /\ catq.result = "host"

(***************************************************************************)
(* Mission cache: properties of every call                                 *)
(***************************************************************************)
CallAnswered == call.op # "none"

Sources == {"initial_cache", "memory_cache", "api", "cache_fallback"}

LaterPageFailed ==
    /\ call.gets >= 2
    /\ call.script[call.gets].kind = "http"
    /\ call.script[call.gets].code \notin {200, 401}

\* C24: when a page after the first answers a status other than 200 and 401,
\* pagination stops without raising and the pages fetched so far are committed
\* as a successful fetch: they overwrite tasks.json and the in-memory list and
\* are returned with success=true, source=api, error=null.
C24_LaterPageStopsAndCommits ==
    (CallAnswered /\ LaterPageFailed) =>
        LET fetched == Concatenated(call.script, call.gets - 1)
        IN  /\ ret.raised = "none"
            /\ call.exit = "break"
            /\ ret.missions = fetched
            /\ ret.status = ApiStatus(TRUE, "api", NoError)
            /\ tasks_json = JsonFile(fetched)
            /\ _cached_missions = Some(fetched)

\* a second page answering 500 over a tasks.json that held another list
C24_Witness ==
    /\ CallAnswered
    /\ LaterPageFailed
    /\ call.script[2].code = 500
    /\ call.entry.disk # tasks_json
    /\ Len(ret.missions) = per_page

(***************************************************************************)
(* Attachments: properties of the error answers                            *)
(***************************************************************************)
\* C25: whenever upload_attachments answers an error, whatever the cause (the
\* remote call failed, or an exception while the remote ids were applied to the
\* local files), no file and no sidecar written for that batch is left in the
\* directory.
C25_NoPartialBatchOnError ==
    (req.op = "upload_attachments" /\ req.http = 500) =>
        /\ files \subseteq req.before.files
        /\ DOMAIN sidecars \subseteq DOMAIN req.before.sidecars

\* C26: whenever delete_synack_attachment removes local files while the remote
\* delete of at least one of them failed, the success answer carries an
\* api_warning, also when several files match and the remote delete succeeded
\* for some of them and failed for others.
C26_RemoteFailureReported ==
    (DeleteAnswered /\ req.success /\ req.remote_failed # {}) => req.api_warning

(***************************************************************************)
(* Drafts: the conclusion                                                  *)
(***************************************************************************)
\* C27: a draft saved with conclusion_type t and conclusion text c is loaded
\* back with conclusion_type = t and conclusion = c, after any earlier saves to
\* the same draft file, an earlier save with the other conclusion type
\* included.  Stated for a listing in which one mission only has saved drafts.
C27_ConclusionRoundTrip ==
    (LoadAnswered /\ DOMAIN saved.last = {dreq.mission_id}) =>
        LET draft_data == saved.last[dreq.mission_id]
            sections == dreq.result.sections
        IN  /\ dreq.result.is_draft
            /\ sections.conclusion_type = draft_data.conclusion_type
            /\ sections.conclusion = draft_data.conclusion

(***************************************************************************)
(* Drafts: two requests at once                                            *)
(***************************************************************************)
\* the position of a request's step in the history, 0 if not taken yet
At(r, what) ==
    LET found == {i \in 1..Len(events) : events[i] = [request |-> r, step |-> what]}
    IN  IF found = {} THEN 0 ELSE Min(found)

\* both requests read draft_mapping.json before either wrote it, and `first`
\* wrote it before `second` did
BothReadThenWrote(first, second) ==
    /\ At(first, "write_mapping") > 0
    /\ At(second, "write_mapping") > At(first, "write_mapping")
    /\ At(first, "read_mapping") < At(first, "write_mapping")
    /\ At(second, "read_mapping") < At(first, "write_mapping")

\* C28: no lock is taken around the shared files, and a lost update is
\* reachable: when two save_draft calls for different missions of one listing
\* both read draft_mapping.json before either writes it, the mapping entry
\* written by the first writer is gone after the second write.
C28_LostMappingUpdate ==
    \A first, second \in Requests :
        BothReadThenWrote(first, second) =>
            /\ procs[first].filename \notin DOMAIN MappingOnDisk
            /\ procs[second].filename \in DOMAIN MappingOnDisk

\* both requests have finished after such an interleaving
C28_Witness ==
    /\ \A r \in Requests : procs[r].pc = "done"
    /\ BothReadThenWrote("r1", "r2")
    /\ D1 \notin DOMAIN MappingOnDisk

(***************************************************************************)
(* Mission cache: memory and file                                          *)
(***************************************************************************)
\* C29: between calls, whenever the in-memory mission list is set it equals
\* the list stored in tasks.json, after any sequence of get_all_missions and
\* force_refresh_missions calls with any mix of outcomes, nothing else writing
\* tasks.json.
C29_MemoryEqualsFile ==
    _cached_missions # None => _cached_missions[1] = FileContent(tasks_json)

\* the memory is set after a failed call that followed a fetch which replaced
\* what tasks.json held at the start
C29_Witness ==
    /\ _cached_missions # None
    /\ calls >= 2
    /\ ret.status.source = "cache_fallback"
    /\ last_list # None
    /\ _cached_missions = last_list
    /\ _last_fetch_time = "current_time"

(***************************************************************************)
(* Attachments: files and sidecars                                         *)
(***************************************************************************)
\* C30: after every completed upload, promotion or delete request each
\* attachment file of the directory has its sidecar metadata/{filename}.json,
\* whose filename field is the file's current name, and no sidecar is without
\* its file; also when a rename or remove step inside the request failed
\* part-way.
C30_OneSidecarPerFile ==
    /\ \A f \in files : HasSidecar(Dir, f) /\ sidecars[f].filename = f
    /\ \A k \in DOMAIN sidecars : k \in files

====
